---- MODULE Spec2Model ----
(***************************************************************************)
(* A model of search-rag: the Apify RAG Web Browser client                 *)
(* (src/apify_rag/client.py), the Flask application (src/app.py) and the   *)
(* username look-up script (src/search_by_username.py).                    *)
(*                                                                         *)
(* Python values are tagged records: None, Str(tokens), Dict(items).  A    *)
(* Python str is a sequence of tokens ("https://", "x.com", "/", "alice",  *)
(* " ", ...): substring tests and the literal regular expressions of the   *)
(* client are evaluated token by token.  A JSON object is a TLA+ record    *)
(* whose DOMAIN is the set of keys present, so `"k" in d` is               *)
(* "k" \in DOMAIN d.                                                       *)
(***************************************************************************)
EXTENDS Integers, Sequences, FiniteSets, TLC

VARIABLES
    pc,                 \* control point of the operation in progress
    call,               \* arguments of the client call in progress
    params,             \* query parameters of the last upstream GET
    gets,               \* upstream GETs issued for the current operation
    response,           \* the upstream's answer to the GET;
                        \* search_by_username.py: the 200 answer being processed
    search_results,     \* search_for_person: the list returned by search()
    idx,                \* search_for_person: results whose iteration finished
    formatted_results,  \* search_for_person: the profile being built
    outcome,            \* how the client call ended: a return or a raise
    request,            \* app.py: the HTTP request being handled;
                        \* search_rag.py: the tool invocation
    http_response,      \* app.py: the handler's answer;
                        \* search_rag.py: the string the tool returns
    found_info,         \* search_by_username.py: what was found so far
    posted,             \* search_by_username.py: the POSTs sent, in order
    last_status,        \* search_by_username.py: status of the last answer
    environ,            \* os.environ: the value of APIFY_API_TOKEN
    api_token           \* the client's self.api_token

\* the variables of search_by_username.py
userVars == <<found_info, posted, last_status>>

\* the environment of the process and the client it constructed
procVars == <<environ, api_token>>

vars == <<pc, call, params, gets, response, search_results, idx,
          formatted_results, outcome, request, http_response,
          found_info, posted, last_status, environ, api_token>>

---------------------------------------------------------------------------
(* Bounds of the model *)

\* longest result list the upstream returns to a direct client call
MaxResults == 3

---------------------------------------------------------------------------
(* Python values *)

None == [type |-> "NoneType"]
Str(s) == [type |-> "str", val |-> s]
Dict(d) == [type |-> "dict", items |-> d]
EmptyDict == [k \in {} |-> None]
EmptyStr == Str(<<>>)

IsNone(v) == v.type = "NoneType"
IsStr(v) == v.type = "str"

\* Python truthiness of None / str ("not x" is ~Truthy(x))
Truthy(v) == IsStr(v) /\ v.val # <<>>

\* d.get(k, default) on the items of a dict
Get(items, k, default) == IF k \in DOMAIN items THEN items[k] ELSE default

\* `sub in s` for str operands, token by token
Contains(s, sub) ==
    \E k \in 0..(Len(s) - Len(sub)) :
        \A j \in 1..Len(sub) : s[k + j] = sub[j]

\* JSON values, as they travel in HTTP bodies
JNull == [json |-> "null"]
JString(s) == [json |-> "string", val |-> s]
JObject(m) == [json |-> "object", members |-> m]

\* JSON -> Python, as response.json() and request.json do it
RECURSIVE JsonLoads(_)
JsonLoads(v) ==
    CASE v.json = "null" -> None
      [] v.json = "string" -> Str(v.val)
      [] v.json = "object" -> Dict([k \in DOMAIN v.members |-> JsonLoads(v.members[k])])
JsonLoadsItem(item) == [k \in DOMAIN item |-> JsonLoads(item[k])]

\* Python -> JSON, as jsonify does it
RECURSIVE JsonDumps(_)
JsonDumps(v) ==
    CASE v.type = "NoneType" -> JNull
      [] v.type = "str" -> JString(v.val)
      [] v.type = "dict" -> JObject([k \in DOMAIN v.items |-> JsonDumps(v.items[k])])
JsonDumpsItem(item) == [k \in DOMAIN item |-> JsonDumps(item[k])]

\* What a raise carries.  NoExc stands for "nothing was raised".
NoExc == [type |-> "none"]
TypeError(where) ==
    [type |-> "TypeError", line |-> where, msg |-> [template |-> "TypeError"]]
\* f"Error {response.status_code}: {response.text}"
ErrorMsg(status, text) ==
    [template |-> "Error {status_code}: {text}", status_code |-> status, text |-> text]
UpstreamError(status, text) == [type |-> "Exception", msg |-> ErrorMsg(status, text)]

---------------------------------------------------------------------------
(* The platform tests of search_for_person *)

Platforms == {"x_twitter", "instagram", "facebook"}

Scheme == {"http://", "https://"}

\* the tokens that stand for runs of [a-zA-Z0-9]
Alnum == {"alice", "bob", "carol", "dave", "share", "about", "see", "Ada", "Lovelace"}

\* the character class that follows the domain in each pattern
NameClass(p) ==
    CASE p = "x_twitter" -> Alnum \cup {"_"}          \* [a-zA-Z0-9_]+
      [] p = "instagram" -> Alnum \cup {"_", "."}     \* [a-zA-Z0-9_\.]+
      [] p = "facebook"  -> Alnum \cup {"."}          \* [a-zA-Z0-9\.]+

\* the domains each pattern accepts
PatternDomains(p) ==
    CASE p = "x_twitter" -> {"twitter.com", "x.com"}
      [] p = "instagram" -> {"instagram.com"}
      [] p = "facebook"  -> {"facebook.com"}

\* position of the domain when the pattern is tried at k: after https?://
\* and the optional www.
DomainPos(s, k) == IF k + 1 <= Len(s) /\ s[k + 1] = "www." THEN k + 2 ELSE k + 1

\* the pattern of platform p matches s starting at token k
MatchesAt(s, k, p) ==
    LET d == DomainPos(s, k) IN
    /\ k \in 1..Len(s)
    /\ s[k] \in Scheme
    /\ d + 2 <= Len(s)
    /\ s[d] \in PatternDomains(p)
    /\ s[d + 1] = "/"
    /\ s[d + 2] \in NameClass(p)

\* the greedy run of class tokens starting at j
RECURSIVE NameRun(_, _, _)
NameRun(s, j, cls) ==
    IF j <= Len(s) /\ s[j] \in cls THEN <<s[j]>> \o NameRun(s, j + 1, cls) ELSE <<>>

\* re.findall(pattern_p, content) is non-empty
HasMatch(s, p) == \E k \in 1..Len(s) : MatchesAt(s, k, p)

\* matches[0]: the groups of the leftmost match
FirstMatch(s, p) ==
    LET k == CHOOSE k \in 1..Len(s) :
                 /\ MatchesAt(s, k, p)
                 /\ \A m \in 1..(k - 1) : ~MatchesAt(s, m, p)
        d == DomainPos(s, k)
    IN  [domain |-> s[d], user |-> NameRun(s, d + 2, NameClass(p))]

\* the URL written to the slot from a content match (lines 152, 157, 162):
\* x_twitter keeps the matched domain, the other two use a fixed one
LinkFromMatch(p, m) ==
    CASE p = "x_twitter" -> Str(<<"https://", m.domain, "/">> \o m.user)
      [] p = "instagram" -> Str(<<"https://", "instagram.com", "/">> \o m.user)
      [] p = "facebook"  -> Str(<<"https://", "facebook.com", "/">> \o m.user)

\* mutant of DirectPlatform: the tests are tried in the reverse order
DirectPlatform_FacebookFirst(url) ==
    IF Contains(url, <<"facebook.com", "/">>) THEN "facebook"
    ELSE IF Contains(url, <<"instagram.com", "/">>) THEN "instagram"
    ELSE IF Contains(url, <<"twitter.com", "/">>) \/ Contains(url, <<"x.com", "/">>)
    THEN "x_twitter"
    ELSE "none"

\* the if / elif / elif chain of lines 136-141: the platform whose slot the
\* result's own URL is written to, or "none"
DirectPlatform(url) ==
    IF Contains(url, <<"twitter.com", "/">>) \/ Contains(url, <<"x.com", "/">>)
    THEN "x_twitter"
    ELSE IF Contains(url, <<"instagram.com", "/">>) THEN "instagram"
    ELSE IF Contains(url, <<"facebook.com", "/">>) THEN "facebook"
    ELSE "none"

---------------------------------------------------------------------------
(* search_for_person: the body of the loop over the results *)

\* formatted_results as built at lines 111-121
NewProfile(query, name) ==
    [query |-> query,
     person_name |-> name,
     sources |-> <<>>,
     content |-> <<>>,
     social_links |-> [p \in Platforms |-> None]]

\* mutant of AppendSource: the new source record goes to the front
AppendSource_Prepend(sources, url, title) == <<[url |-> url, title |-> title]>> \o sources

\* formatted_results["sources"].append(source), lines 129-133
AppendSource(sources, url, title) == Append(sources, [url |-> url, title |-> title])

\* lines 136-141: the slot of the URL's platform takes the URL
DirectWrite(links, url) ==
    LET p == DirectPlatform(url.val) IN
    IF p = "none" THEN links ELSE [links EXCEPT ![p] = url]

\* lines 125-141 for one result: the source record and the direct-URL check.
\* `"url" in None` (metadata is null) and `"twitter.com/" in None` (url is
\* null) raise TypeError; the latter after the source was appended.
SourceStage(fr, result) ==
    IF "metadata" \notin DOMAIN result THEN [fr |-> fr, exc |-> NoExc]
    ELSE IF IsNone(result.metadata) THEN [fr |-> fr, exc |-> TypeError(125)]
    ELSE IF "url" \notin DOMAIN result.metadata.items THEN [fr |-> fr, exc |-> NoExc]
    ELSE
        LET md == result.metadata.items
            url == Get(md, "url", EmptyStr)
            title == Get(md, "title", EmptyStr)
            fr1 == [fr EXCEPT !.sources = AppendSource(@, url, title)]
        IN  IF IsNone(url) THEN [fr |-> fr1, exc |-> TypeError(136)]
            ELSE [fr |-> [fr1 EXCEPT !.social_links = DirectWrite(@, url)],
                  exc |-> NoExc]

\* mutant of ScanSlot: the `if not slot` guard is missing
ScanSlot_Unguarded(slot, p, s) ==
    IF HasMatch(s, p) THEN LinkFromMatch(p, FirstMatch(s, p)) ELSE slot

\* lines 149-152 / 154-157 / 159-162 for one platform: a still-empty slot
\* takes the link built from the leftmost match
ScanSlot(slot, p, s) ==
    IF ~Truthy(slot) /\ HasMatch(s, p) THEN LinkFromMatch(p, FirstMatch(s, p)) ELSE slot

\* lines 144-162 for one result: the content is appended, then scanned for
\* each platform whose slot is still empty.  re.findall on None (markdown
\* is null) raises TypeError; it is reached only when some slot is empty.
ContentStage(fr, result) ==
    IF "markdown" \notin DOMAIN result THEN [fr |-> fr, exc |-> NoExc]
    ELSE
        LET content == result.markdown
            fr1 == [fr EXCEPT !.content = Append(@, content)]
        IN  IF IsNone(content)
            THEN [fr |-> fr1,
                  exc |-> IF \E p \in Platforms : ~Truthy(fr.social_links[p])
                          THEN TypeError(150) ELSE NoExc]
            ELSE [fr |-> [fr1 EXCEPT !.social_links =
                             [p \in Platforms |-> ScanSlot(@[p], p, content.val)]],
                  exc |-> NoExc]

---------------------------------------------------------------------------
(* The upstream: what the Actor may answer *)

U_x_alice == <<"https://", "x.com", "/", "alice">>
U_tw_bob  == <<"https://", "twitter.com", "/", "bob">>
U_ig      == <<"https://", "www.", "instagram.com", "/", "alice">>
U_fb      == <<"https://", "facebook.com", "/", "alice">>
U_web     == <<"https://", "example.org", "/", "about">>
\* a URL with the substrings of two platforms
U_multi   == <<"https://", "x.com", "/", "share", "?u=", "instagram.com", "/", "alice">>

Title == <<"Ada", " ", "Lovelace">>

\* text without links
M_plain == <<"about", " ", "alice">>
\* two X links; the first is http, www. and twitter.com
M_x == <<"see", " ", "http://", "www.", "twitter.com", "/", "carol", "_", "dave",
         " ", "https://", "x.com", "/", "dave">>
\* an Instagram and a Facebook link with "." and "_" in the handle
M_igfb == <<"https://", "www.", "instagram.com", "/", "carol", ".", "dave", "_", "bob",
            " ", "http://", "facebook.com", "/", "carol", ".", "dave", "_", "bob">>
\* links of all three platforms
M_all == M_x \o <<" ">> \o M_igfb

\* The result objects the upstream answers with, as JSON.
JsonPool ==
    { \* own URL on X, content with other links of all three platforms
      [metadata |-> JObject([url |-> JString(U_x_alice), title |-> JString(Title)]),
       markdown |-> JString(M_all)],
      \* own URL on Twitter, no content
      [metadata |-> JObject([url |-> JString(U_tw_bob), title |-> JString(Title)])],
      \* own URL on Instagram, no title, empty content
      [metadata |-> JObject([url |-> JString(U_ig)]), markdown |-> JString(<<>>)],
      \* own URL on Facebook, content without links
      [metadata |-> JObject([url |-> JString(U_fb), title |-> JString(Title)]),
       markdown |-> JString(M_plain)],
      \* own URL on no platform, content with X links
      [metadata |-> JObject([url |-> JString(U_web), title |-> JString(Title)]),
       markdown |-> JString(M_x)],
      \* no metadata, content with Instagram and Facebook links
      [markdown |-> JString(M_igfb)],
      \* metadata without url, text instead of markdown
      [metadata |-> JObject([title |-> JString(Title)]), text |-> JString(M_plain)],
      \* own URL with the substrings of X and Instagram
      [metadata |-> JObject([url |-> JString(U_multi), title |-> JString(Title)]),
       markdown |-> JString(M_igfb)],
      \* empty url, null title
      [metadata |-> JObject([url |-> JString(<<>>), title |-> JNull]),
       markdown |-> JString(M_plain)],
      \* null url
      [metadata |-> JObject([url |-> JNull, title |-> JString(Title)])],
      \* null metadata
      [metadata |-> JNull, markdown |-> JString(M_x)],
      \* null markdown
      [metadata |-> JObject([url |-> JString(U_web), title |-> JString(Title)]),
       markdown |-> JNull] }

BoundedSeq(S, n) == UNION {[1..k -> S] : k \in 0..n}

\* the statuses and bodies of a failing upstream
ErrorStatus == {500, 401}
ErrorText == Str(<<"Internal", " ", "Server", " ", "Error">>)

\* every answer to a GET: 200 with a JSON list of results, or a failure
UpstreamResponses(pool, n) ==
    {[status_code |-> 200, body |-> rs, text |-> EmptyStr] : rs \in BoundedSeq(pool, n)}
    \cup {[status_code |-> st, body |-> <<>>, text |-> ErrorText] : st \in ErrorStatus}

\* response.json(): the body parsed into Python values
ResponseJson(resp) == [k \in 1..Len(resp.body) |-> JsonLoadsItem(resp.body[k])]

---------------------------------------------------------------------------
(* ApifyRagWebBrowserClient *)

\* self.api_token, as configured at start-up
ApiToken == Str(<<"apify_api_token">>)

\* str(b).lower()
BoolStr(b) == IF b THEN "true" ELSE "false"

\* the keyword arguments of search() with their defaults (lines 28-36)
SearchDefaults ==
    [max_results |-> 3,
     scraping_tool |-> "browser-playwright",
     output_format |-> "markdown",
     request_timeout_secs |-> 40,
     dynamic_content_wait_secs |-> 10,     \* tenths of a second: 1.0
     remove_cookie_warnings |-> TRUE,
     debug_mode |-> FALSE]

\* params, lines 55-65
SearchParams(token, query, kw) ==
    [token |-> token,
     query |-> query,
     maxResults |-> kw.max_results,
     scrapingTool |-> kw.scraping_tool,
     outputFormat |-> kw.output_format,
     requestTimeoutSecs |-> kw.request_timeout_secs,
     dynamicContentWaitSecs |-> kw.dynamic_content_wait_secs,
     removeCookieWarnings |-> BoolStr(kw.remove_cookie_warnings),
     debugMode |-> BoolStr(kw.debug_mode)]

\* mutant of PersonQuery: a non-empty context takes precedence over the
\* X focus
PersonQuery_ContextFirst(name, additional_context, focus_x_account) ==
    IF Truthy(additional_context)
    THEN Str(name.val \o <<" ">> \o additional_context.val)
    ELSE IF focus_x_account
    THEN Str(name.val \o <<" ", "X", " ", "twitter", " ", "account", " ", "@">>)
    ELSE name

\* the query of search_for_person, lines 94-99
PersonQuery(name, additional_context, focus_x_account) ==
    IF focus_x_account
    THEN Str(name.val \o <<" ", "X", " ", "twitter", " ", "account", " ", "@">>)
    ELSE IF Truthy(additional_context)
    THEN Str(name.val \o <<" ">> \o additional_context.val)
    ELSE name

\* the arguments search_for_person passes to search, lines 102-108
PersonSearchKw(max_results) ==
    [SearchDefaults EXCEPT !.max_results = max_results,
                           !.scraping_tool = "browser-playwright",
                           !.output_format = "markdown",
                           !.dynamic_content_wait_secs = 30]

NoCall == [fn |-> "none"]
NoParams == [token |-> None]
NoResponse == [status_code |-> 0, body |-> <<>>, text |-> EmptyStr]
NoOutcome == [kind |-> "none"]
Return(v) == [kind |-> "return", value |-> v]
Raise(e) == [kind |-> "raise", exc |-> e]
NoRequest == [endpoint |-> "none"]
NoFoundInfo == [username |-> "none"]
NoHttpResponse == [status |-> 0]

\* the frame of a call of search_for_person: its arguments, the query of
\* lines 94-99 and the keyword arguments of lines 102-108
SearchForPersonCall(name, additional_context, max_results, focus_x_account) ==
    [fn |-> "search_for_person",
     args |-> [name |-> name,
               additional_context |-> additional_context,
               max_results |-> max_results,
               focus_x_account |-> focus_x_account],
     name |-> name,
     query |-> PersonQuery(name, additional_context, focus_x_account),
     kw |-> PersonSearchKw(max_results)]

\* a call of search_for_person(name, additional_context, max_results,
\* focus_x_account) up to the call of requests.get
EnterSearchForPerson(name, additional_context, max_results, focus_x_account) ==
    /\ call' = SearchForPersonCall(name, additional_context, max_results,
                                   focus_x_account)
    /\ pc' = "get"

\* a call of search(query, ...) up to the call of requests.get
EnterSearch(query, kw) ==
    /\ call' = [fn |-> "search", name |-> None, query |-> query, kw |-> kw]
    /\ pc' = "get"

\* line 67: the GET leaves with the params of lines 55-65
search_get ==
    /\ pc = "get"
    /\ params' = SearchParams(api_token, call.query, call.kw)
    /\ gets' = gets + 1
    /\ pc' = "awaiting"
    /\ UNCHANGED <<call, response, search_results, idx, formatted_results,
                   outcome, request, http_response>>
    /\ UNCHANGED userVars
    /\ UNCHANGED procVars

\* mutant of RaiseUpstream: a failed GET is tried again instead of raising
RaiseUpstream_Retry(resp) ==
    /\ pc' = "get"
    /\ UNCHANGED <<outcome, search_results, formatted_results, idx>>

\* lines 72-74: a non-200 answer raises Exception("Error <status>: <text>")
RaiseUpstream(resp) ==
    /\ outcome' = Raise(UpstreamError(resp.status_code, resp.text))
    /\ pc' = "done"
    /\ UNCHANGED <<search_results, formatted_results, idx>>

\* lines 67-74: the answer arrives; 200 returns the parsed list, anything
\* else raises.  In search_for_person the list goes to the loop of line 123
\* with a fresh formatted_results (lines 111-121).
search_reply(resp) ==
    /\ pc = "awaiting"
    /\ response' = resp
    /\ IF resp.status_code = 200
       THEN IF call.fn = "search_for_person"
            THEN /\ search_results' = ResponseJson(resp)
                 /\ formatted_results' = NewProfile(call.query, call.name)
                 /\ idx' = 0
                 /\ pc' = "loop"
                 /\ UNCHANGED outcome
            ELSE /\ outcome' = Return(ResponseJson(resp))
                 /\ pc' = "done"
                 /\ UNCHANGED <<search_results, formatted_results, idx>>
       ELSE RaiseUpstream(resp)
    /\ UNCHANGED <<call, params, gets, request, http_response>>
    /\ UNCHANGED userVars
    /\ UNCHANGED procVars

\* lines 123-141 for the next result
SourceStep ==
    /\ pc = "loop"
    /\ idx < Len(search_results)
    /\ LET r == SourceStage(formatted_results, search_results[idx + 1]) IN
        /\ formatted_results' = r.fr
        /\ IF r.exc = NoExc
           THEN pc' = "content" /\ UNCHANGED outcome
           ELSE pc' = "done" /\ outcome' = Raise(r.exc)
    /\ UNCHANGED <<call, params, gets, response, search_results, idx,
                   request, http_response>>
    /\ UNCHANGED userVars
    /\ UNCHANGED procVars

\* lines 143-162 for the same result; then back to line 123
ContentStep ==
    /\ pc = "content"
    /\ LET r == ContentStage(formatted_results, search_results[idx + 1]) IN
        /\ formatted_results' = r.fr
        /\ IF r.exc = NoExc
           THEN pc' = "loop" /\ idx' = idx + 1 /\ UNCHANGED outcome
           ELSE pc' = "done" /\ outcome' = Raise(r.exc) /\ UNCHANGED idx
    /\ UNCHANGED <<call, params, gets, response, search_results,
                   request, http_response>>
    /\ UNCHANGED userVars
    /\ UNCHANGED procVars

\* line 164: the loop is over
ReturnProfile ==
    /\ pc = "loop"
    /\ idx = Len(search_results)
    /\ outcome' = Return(formatted_results)
    /\ pc' = "done"
    /\ UNCHANGED <<call, params, gets, response, search_results, idx,
                   formatted_results, request, http_response>>
    /\ UNCHANGED userVars
    /\ UNCHANGED procVars

---------------------------------------------------------------------------
(* The client called directly, as a library *)

Names == {Str(Title)}
Contexts == {EmptyStr, Str(<<"mathematician">>)}

InitClient ==
    /\ pc = "idle"
    /\ call = NoCall
    /\ params = NoParams
    /\ gets = 0
    /\ response = NoResponse
    /\ search_results = <<>>
    /\ idx = 0
    /\ formatted_results = None
    /\ outcome = NoOutcome
    /\ request = NoRequest
    /\ http_response = NoHttpResponse
    /\ found_info = NoFoundInfo
    /\ posted = <<>>
    /\ last_status = 0
    /\ environ = ApiToken
    /\ api_token = ApiToken

CallSearchForPerson ==
    /\ pc = "idle"
    /\ \E name \in Names, ctx \in Contexts, focus \in BOOLEAN :
           EnterSearchForPerson(name, ctx, 3, focus)
    /\ UNCHANGED <<params, gets, response, search_results, idx,
                   formatted_results, outcome, request, http_response>>
    /\ UNCHANGED userVars
    /\ UNCHANGED procVars

CallSearch ==
    /\ pc = "idle"
    /\ \E fmt \in {"markdown", "text"} :
           EnterSearch(Str(Title),
                       [SearchDefaults EXCEPT !.output_format = fmt])
    /\ UNCHANGED <<params, gets, response, search_results, idx,
                   formatted_results, outcome, request, http_response>>
    /\ UNCHANGED userVars
    /\ UNCHANGED procVars

\* what the upstream may answer to a direct client call
ClientResponses == UpstreamResponses(JsonPool, MaxResults)

ClientReply ==
    /\ pc = "awaiting"
    /\ \E resp \in ClientResponses : search_reply(resp)

NextPerson ==
    \/ CallSearchForPerson
    \/ CallSearch
    \/ search_get
    \/ ClientReply
    \/ SourceStep
    \/ ContentStep
    \/ ReturnProfile

SpecPerson == InitClient /\ [][NextPerson]_vars

---------------------------------------------------------------------------
(* app.py: the Flask application, after a successful start-up *)

\* longest result list the upstream returns to a request of the application
MaxItems == 2

Query == Str(<<"Ada", " ", "Lovelace">>)

\* request.json of the POST bodies sent to /search: no body, an empty
\* object, objects without and with "name"
SearchBodies ==
    { None,
      Dict(EmptyDict),
      Dict([context |-> Str(<<"mathematician">>)]),
      Dict([name |-> Str(Title)]),
      Dict([name |-> Str(Title), context |-> Str(<<"mathematician">>)]),
      Dict([name |-> Str(Title), max_results |-> 2]),
      Dict([name |-> Str(Title), focus_x_account |-> TRUE, max_results |-> 3]) }

\* request.json of the POST bodies sent to /raw-search
RawSearchBodies ==
    { None,
      Dict(EmptyDict),
      Dict([max_results |-> 2, output_format |-> "text"]),
      Dict([query |-> Query]),
      Dict([query |-> Query, output_format |-> "markdown"]),
      Dict([query |-> Query, output_format |-> "text", scraping_tool |-> "raw-http",
            max_results |-> 2]) }

Requests ==
    {[endpoint |-> "/search", data |-> d] : d \in SearchBodies}
    \cup {[endpoint |-> "/raw-search", data |-> d] : d \in RawSearchBodies}
    \cup {[endpoint |-> "/health", data |-> None]}

\* `not data or '<field>' not in data`, lines 54 and 91
MissingField(data, field) ==
    IF IsNone(data) THEN TRUE
    ELSE IF DOMAIN data.items = {} THEN TRUE
    ELSE field \notin DOMAIN data.items

\* mutant of BadRequest: the rejection carries status 500
BadRequest_As500(message) == [status |-> 500, json |-> [error |-> message]]

\* jsonify({"error": ...}), 400 -- lines 56 and 93
BadRequest(message) == [status |-> 400, json |-> [error |-> message]]

\* mutant of ErrorResponse: the message of the exception is dropped
ErrorResponse_Generic(e) == [status |-> 500, json |-> [error |-> [template |-> "search failed"]]]

\* jsonify({"error": str(e)}), 500 -- lines 71 and 122
ErrorResponse(e) == [status |-> 500, json |-> [error |-> e.msg]]

\* jsonify(result) of a person profile, line 67
ProfilePayload(fr) ==
    [query |-> JsonDumps(fr.query),
     person_name |-> JsonDumps(fr.person_name),
     sources |-> [k \in 1..Len(fr.sources) |-> JsonDumpsItem(fr.sources[k])],
     content |-> [k \in 1..Len(fr.content) |-> JsonDumps(fr.content[k])],
     social_links |-> JsonDumpsItem(fr.social_links)]

\* mutant of ResultsPayload: every item gets a "markdown" field
ResultsPayload_WithMarkdown(rs) ==
    [k \in 1..Len(rs) |->
        IF "markdown" \in DOMAIN rs[k] THEN JsonDumpsItem(rs[k])
        ELSE [f \in DOMAIN rs[k] \cup {"markdown"} |->
                 IF f \in DOMAIN rs[k] THEN JsonDumps(rs[k][f]) ELSE JString(<<>>)]]

\* jsonify(result) of a result list, line 118
ResultsPayload(rs) == [k \in 1..Len(rs) |-> JsonDumpsItem(rs[k])]

\* a request arrives; the handler starts with its own fresh locals
Receive ==
    /\ pc \in {"serving", "responded"}
    /\ \E req \in Requests : request' = req
    /\ pc' = "handler"
    /\ call' = NoCall
    /\ params' = NoParams
    /\ gets' = 0
    /\ response' = NoResponse
    /\ search_results' = <<>>
    /\ idx' = 0
    /\ formatted_results' = None
    /\ outcome' = NoOutcome
    /\ http_response' = NoHttpResponse
    /\ UNCHANGED userVars
    /\ UNCHANGED procVars

\* mutant of health_check: the endpoint reports the service as unavailable
health_check_Unavailable ==
    /\ pc = "handler"
    /\ request.endpoint = "/health"
    /\ http_response' = [status |-> 503,
                         json |-> [status |-> "error", message |-> "API is down"]]
    /\ pc' = "responded"
    /\ UNCHANGED <<call, params, gets, response, search_results, idx,
                   formatted_results, outcome, request>>
    /\ UNCHANGED userVars
    /\ UNCHANGED procVars

\* lines 35-39
health_check ==
    /\ pc = "handler"
    /\ request.endpoint = "/health"
    /\ http_response' = [status |-> 200,
                         json |-> [status |-> "ok", message |-> "API is running"]]
    /\ pc' = "responded"
    /\ UNCHANGED <<call, params, gets, response, search_results, idx,
                   formatted_results, outcome, request>>
    /\ UNCHANGED userVars
    /\ UNCHANGED procVars

\* search_person, lines 53-56: the body has no 'name'
search_person_reject ==
    /\ pc = "handler"
    /\ request.endpoint = "/search"
    /\ MissingField(request.data, "name")
    /\ http_response' = BadRequest("Please provide a 'name' in the request body")
    /\ pc' = "responded"
    /\ UNCHANGED <<call, params, gets, response, search_results, idx,
                   formatted_results, outcome, request>>
    /\ UNCHANGED userVars
    /\ UNCHANGED procVars

\* search_person, lines 58-65: the call of search_for_person(name,
\* additional_context, max_results); focus_x_account is not read
search_person_call ==
    /\ pc = "handler"
    /\ request.endpoint = "/search"
    /\ ~MissingField(request.data, "name")
    /\ LET data == request.data.items IN
           EnterSearchForPerson(data.name, Get(data, "context", EmptyStr),
                                Get(data, "max_results", 3), FALSE)
    /\ UNCHANGED <<params, gets, response, search_results, idx,
                   formatted_results, outcome, request, http_response>>
    /\ UNCHANGED userVars
    /\ UNCHANGED procVars

\* search_person, lines 66-71: the profile, or the 500 of the except branch
search_person_return ==
    /\ pc = "done"
    /\ request.endpoint = "/search"
    /\ http_response' = IF outcome.kind = "return"
                        THEN [status |-> 200, json |-> ProfilePayload(outcome.value)]
                        ELSE ErrorResponse(outcome.exc)
    /\ pc' = "responded"
    /\ UNCHANGED <<call, params, gets, response, search_results, idx,
                   formatted_results, outcome, request>>
    /\ UNCHANGED userVars
    /\ UNCHANGED procVars

\* raw_search, lines 90-93: the body has no 'query'
raw_search_reject ==
    /\ pc = "handler"
    /\ request.endpoint = "/raw-search"
    /\ MissingField(request.data, "query")
    /\ http_response' = BadRequest("Please provide a 'query' in the request body")
    /\ pc' = "responded"
    /\ UNCHANGED <<call, params, gets, response, search_results, idx,
                   formatted_results, outcome, request>>
    /\ UNCHANGED userVars
    /\ UNCHANGED procVars

\* raw_search, lines 95-116: the call of search with the fields of the body
raw_search_call ==
    /\ pc = "handler"
    /\ request.endpoint = "/raw-search"
    /\ ~MissingField(request.data, "query")
    /\ LET data == request.data.items IN
           EnterSearch(data.query,
               [max_results |-> Get(data, "max_results", 3),
                scraping_tool |-> Get(data, "scraping_tool", "browser-playwright"),
                output_format |-> Get(data, "output_format", "markdown"),
                request_timeout_secs |-> Get(data, "request_timeout_secs", 40),
                dynamic_content_wait_secs |-> Get(data, "dynamic_content_wait_secs", 10),
                remove_cookie_warnings |-> Get(data, "remove_cookie_warnings", TRUE),
                debug_mode |-> Get(data, "debug_mode", FALSE)])
    /\ UNCHANGED <<params, gets, response, search_results, idx,
                   formatted_results, outcome, request, http_response>>
    /\ UNCHANGED userVars
    /\ UNCHANGED procVars

\* raw_search, lines 117-122: the list as returned, or the 500 of the
\* except branch
raw_search_return ==
    /\ pc = "done"
    /\ request.endpoint = "/raw-search"
    /\ http_response' = IF outcome.kind = "return"
                        THEN [status |-> 200, json |-> ResultsPayload(outcome.value)]
                        ELSE ErrorResponse(outcome.exc)
    /\ pc' = "responded"
    /\ UNCHANGED <<call, params, gets, response, search_results, idx,
                   formatted_results, outcome, request>>
    /\ UNCHANGED userVars
    /\ UNCHANGED procVars

\* what the upstream may answer to a request of the application
AppResponses == UpstreamResponses(JsonPool, MaxItems)

AppReply ==
    /\ pc = "awaiting"
    /\ \E resp \in AppResponses : search_reply(resp)

NextApp ==
    \/ Receive
    \/ health_check
    \/ search_person_reject
    \/ search_person_call
    \/ search_person_return
    \/ raw_search_reject
    \/ raw_search_call
    \/ raw_search_return
    \/ search_get
    \/ AppReply
    \/ SourceStep
    \/ ContentStep
    \/ ReturnProfile

\* the application after its startup: the client exists, no request yet
InitApp ==
    /\ pc = "serving"
    /\ call = NoCall
    /\ params = NoParams
    /\ gets = 0
    /\ response = NoResponse
    /\ search_results = <<>>
    /\ idx = 0
    /\ formatted_results = None
    /\ outcome = NoOutcome
    /\ request = NoRequest
    /\ http_response = NoHttpResponse
    /\ found_info = NoFoundInfo
    /\ posted = <<>>
    /\ last_status = 0
    /\ environ = ApiToken
    /\ api_token = ApiToken

SpecApp == InitApp /\ [][NextApp]_vars

----------------------------------------------------------------------------
(* Construction of the client and startup of the application *)

MaxCredResults == 1

\* os.environ.get("APIFY_API_TOKEN"): unset, set to "", set to a token
EnvTokens == {None, EmptyStr, ApiToken}

\* the api_token argument of the constructor: omitted, "", a token
ArgTokens == {None, EmptyStr, Str(<<"argument_token">>)}

ValueError ==
    [type |-> "ValueError",
     msg |-> [template |-> "API token must be provided or set as APIFY_API_TOKEN environment variable"]]

\* mutant of ClientInit: the token is not checked
ClientInit_Unchecked(arg, env) ==
    [api_token |-> IF Truthy(arg) THEN arg ELSE env, exc |-> NoExc]

\* __init__, lines 21-23: the argument, else the environment; ValueError
\* when neither gives a token
ClientInit(arg, env) ==
    LET token == IF Truthy(arg) THEN arg ELSE env
    IN  IF ~Truthy(token) THEN [api_token |-> token, exc |-> ValueError]
        ELSE [api_token |-> token, exc |-> NoExc]

InitCred ==
    /\ pc = "boot"
    /\ call = NoCall
    /\ params = NoParams
    /\ gets = 0
    /\ response = NoResponse
    /\ search_results = <<>>
    /\ idx = 0
    /\ formatted_results = None
    /\ outcome = NoOutcome
    /\ request = NoRequest
    /\ http_response = NoHttpResponse
    /\ found_info = NoFoundInfo
    /\ posted = <<>>
    /\ last_status = 0
    /\ environ \in EnvTokens
    /\ api_token = None

\* a program constructs the client itself: ApifyRagWebBrowserClient(arg)
client_init ==
    /\ pc = "boot"
    /\ \E arg \in ArgTokens :
          LET r == ClientInit(arg, environ) IN
            /\ call' = [fn |-> "__init__", api_token |-> arg]
            /\ IF r.exc = NoExc
               THEN /\ api_token' = r.api_token
                    /\ pc' = "idle"
                    /\ UNCHANGED outcome
               ELSE /\ outcome' = Raise(r.exc)
                    /\ pc' = "failed"
                    /\ UNCHANGED api_token
    /\ UNCHANGED <<params, gets, response, search_results, idx,
                   formatted_results, request, http_response, environ>>
    /\ UNCHANGED userVars

\* app.py, lines 15-33: without the variable the process exits with status
\* 1; with it the client is constructed from it, and a failure of the
\* constructor exits as well
app_startup ==
    /\ pc = "boot"
    /\ IF ~Truthy(environ)
       THEN pc' = "exited" /\ UNCHANGED api_token
       ELSE LET r == ClientInit(environ, environ) IN
              IF r.exc = NoExc
              THEN pc' = "serving" /\ api_token' = r.api_token
              ELSE pc' = "exited" /\ UNCHANGED api_token
    /\ UNCHANGED <<call, params, gets, response, search_results, idx,
                   formatted_results, outcome, request, http_response,
                   environ>>
    /\ UNCHANGED userVars

\* what the upstream may answer here
CredPool ==
    { [metadata |-> JObject([url |-> JString(U_x_alice), title |-> JString(Title)]),
       markdown |-> JString(M_plain)],
      [markdown |-> JString(M_igfb)] }

CredResponses == UpstreamResponses(CredPool, MaxCredResults)

CredReply ==
    /\ pc = "awaiting"
    /\ \E resp \in CredResponses : search_reply(resp)

NextCred ==
    \/ client_init
    \/ app_startup
    \/ CallSearchForPerson
    \/ CallSearch
    \/ Receive
    \/ health_check
    \/ search_person_reject
    \/ search_person_call
    \/ search_person_return
    \/ raw_search_reject
    \/ raw_search_call
    \/ raw_search_return
    \/ search_get
    \/ CredReply
    \/ SourceStep
    \/ ContentStep
    \/ ReturnProfile

SpecCred == InitCred /\ [][NextCred]_vars

---------------------------------------------------------------------------
(* search_by_username.py: texts *)

\* A text is the sequence of its whitespace-separated words.  A word is the
\* characters lo..hi-1 of a vocabulary word w, so that a slice which cuts a
\* word in two leaves a different word behind; consecutive words are
\* one space apart.

\* len() of each vocabulary word; "url60" and "url61" stand for two links of
\* 60 and 61 characters
WordLen(w) ==
    CASE w \in {"is", "as"} -> 2
      [] w \in {"Ada", "ada", "the"} -> 3
      [] w \in {"name", "navy", "from", "real"} -> 4
      [] w \in {"alice", "Alice", "Grace", "known", "first", "about"} -> 5
      [] w \in {"@alice", "Hopper", "London"} -> 6
      [] w \in {"nothing"} -> 7
      [] w \in {"Lovelace", "lovelace", "(@alice)"} -> 8
      [] w \in {"Lovelace,"} -> 9
      [] w \in {"url60"} -> 60
      [] w \in {"url61"} -> 61

\* str.lower() of a vocabulary word
LowerOf(w) ==
    CASE w = "Ada" -> "ada"
      [] w = "Lovelace" -> "lovelace"
      [] w = "Lovelace," -> "lovelace,"
      [] w = "Alice" -> "alice"
      [] w = "Grace" -> "grace"
      [] w = "Hopper" -> "hopper"
      [] w = "London" -> "london"
      [] OTHER -> w

Word(w) == [w |-> w, lo |-> 0, hi |-> WordLen(w)]
Text(ws) == [k \in 1..Len(ws) |-> Word(ws[k])]
WLen(x) == x.hi - x.lo
Max(a, b) == IF a > b THEN a ELSE b
Min(a, b) == IF a < b THEN a ELSE b

\* offset of the first character of word k
RECURSIVE StartOf(_, _)
StartOf(t, k) ==
    IF k = 1 THEN 0 ELSE StartOf(t, k - 1) + WLen(t[k - 1]) + 1

EndOf(t, k) == StartOf(t, k) + WLen(t[k])

\* len(text)
TextLen(t) == IF t = <<>> THEN 0 ELSE EndOf(t, Len(t))

\* the words of text[a:b]: a word that the slice cuts keeps only the
\* characters inside it, leading and trailing blanks separate no word
Slice(t, a, b) ==
    LET keep == {k \in 1..Len(t) :
                    Max(StartOf(t, k), a) < Min(EndOf(t, k), b)}
        first == CHOOSE k \in keep : \A j \in keep : k <= j
        cut(k) == [w  |-> t[k].w,
                   lo |-> t[k].lo + (Max(StartOf(t, k), a) - StartOf(t, k)),
                   hi |-> t[k].lo + (Min(EndOf(t, k), b) - StartOf(t, k))]
    IN  IF keep = {} THEN <<>>
        ELSE [i \in 1..Cardinality(keep) |-> cut(first + i - 1)]

\* a run of extra whitespace inside a text: str.split() drops it
Blank == [w |-> " ", lo |-> 0, hi |-> 1]

\* set(text.lower().split())
WordSet(t) ==
    {[w |-> LowerOf(t[k].w), lo |-> t[k].lo, hi |-> t[k].hi] :
        k \in {j \in 1..Len(t) : t[j] # Blank}}

\* is_similar_text's default threshold 0.7, as a fraction
ThresholdNum == 7
ThresholdDen == 10

\* a threshold is the fraction num/den with den > 0
DefaultThreshold == [num |-> ThresholdNum, den |-> ThresholdDen]

\* mutant of is_similar_text: the ratio is taken over the words of text1
is_similar_text_OverFirst(text1, text2, threshold) ==
    IF text1 = <<>> \/ text2 = <<>> THEN FALSE
    ELSE LET words1 == WordSet(text1)
             words2 == WordSet(text2)
             common_words == words1 \cap words2
         IN  IF words1 = {} \/ words2 = {} THEN FALSE
             ELSE Cardinality(common_words) * threshold.den
                    > threshold.num * Cardinality(words1)

\* mutant of is_similar_text: a ratio equal to the threshold counts
is_similar_text_AtLeast(text1, text2, threshold) ==
    IF text1 = <<>> \/ text2 = <<>> THEN FALSE
    ELSE LET words1 == WordSet(text1)
             words2 == WordSet(text2)
             common_words == words1 \cap words2
         IN  IF words1 = {} \/ words2 = {} THEN FALSE
             ELSE Cardinality(common_words) * threshold.den
                    >= threshold.num
                         * Min(Cardinality(words1), Cardinality(words2))

\* lines 154-169; similarity > threshold is compared as
\* len(common_words) * den > num * min(len(words1), len(words2))
is_similar_text(text1, text2, threshold) ==
    IF text1 = <<>> \/ text2 = <<>> THEN FALSE
    ELSE LET words1 == WordSet(text1)
             words2 == WordSet(text2)
             common_words == words1 \cap words2
         IN  IF words1 = {} \/ words2 = {} THEN FALSE
             ELSE Cardinality(common_words) * threshold.den
                    > threshold.num
                        * Min(Cardinality(words1), Cardinality(words2))

AnySimilar(text, infos) ==
    \E k \in 1..Len(infos) :
        is_similar_text(text, infos[k], DefaultThreshold)

(* search_by_username.py: find_info_by_username *)

\* The regular expressions, read on whole words of the vocabulary.
\* the words that end with "@" + username
EndsWithAtUser(w) == w \in {"@alice"}
\* the words that start with "@" + username
StartsWithAtUser(w) == w \in {"@alice"}
\* the words that start with "(@" + username + ")"
StartsWithParenUser(w) == w \in {"(@alice)"}
\* the words that are one [A-Z][a-z]+
CapWords == {"Ada", "Lovelace", "Alice", "Grace", "Hopper", "London"}
\* the longest prefix of w that is one [A-Z][a-z]+, "" if there is none
CapHead(w) ==
    IF w \in CapWords THEN w ELSE IF w = "Lovelace," THEN "Lovelace" ELSE ""
\* X when w is X + "," with X one [A-Z][a-zA-Z-]+, "" otherwise
BeforeComma(w) == IF w = "Lovelace," THEN "Lovelace" ELSE ""

NamePatterns == 1..6

\* does name_patterns[p] match with its first character in word k of t
PatternAt(p, t, k) ==
    LET w(i) == IF k + i <= Len(t) THEN t[k + i].w ELSE ""
    IN  CASE p = 1 -> /\ EndsWithAtUser(w(0)) /\ w(1) = "is"
                      /\ w(2) \in CapWords /\ CapHead(w(3)) # ""
          [] p = 2 -> /\ w(0) \in CapWords /\ w(1) \in CapWords
                      /\ w(2) = "known" /\ w(3) = "as"
                      /\ StartsWithAtUser(w(4))
          [] p = 3 -> /\ w(0) \in CapWords /\ BeforeComma(w(1)) # ""
                      /\ StartsWithAtUser(w(2))
          [] p = 4 -> /\ w(0) \in {"name"} /\ w(1) = "is"
                      /\ w(2) \in CapWords /\ CapHead(w(3)) # ""
          [] p = 5 -> /\ w(0) \in {"real"} /\ w(1) = "name" /\ w(2) = "is"
                      /\ w(3) \in CapWords /\ CapHead(w(4)) # ""
          [] p = 6 -> /\ w(0) \in CapWords /\ w(1) \in CapWords
                      /\ StartsWithParenUser(w(2))

\* the group that name_patterns[p] captures at word k
Capture(p, t, k) ==
    CASE p = 1 -> <<t[k + 2].w, CapHead(t[k + 3].w)>>
      [] p = 2 -> <<t[k].w, t[k + 1].w>>
      [] p = 3 -> <<t[k].w, BeforeComma(t[k + 1].w)>>
      [] p = 4 -> <<t[k + 2].w, CapHead(t[k + 3].w)>>
      [] p = 5 -> <<t[k + 3].w, CapHead(t[k + 4].w)>>
      [] p = 6 -> <<t[k].w, t[k + 1].w>>

\* the members of a set of numbers, in increasing order
RECURSIVE Ascending(_)
Ascending(S) ==
    IF S = {} THEN <<>>
    ELSE LET m == CHOOSE x \in S : \A y \in S : x <= y
         IN  <<m>> \o Ascending(S \ {m})

\* re.findall(name_patterns[p], markdown)
FindAll(p, t) ==
    LET ks == Ascending({k \in 1..Len(t) : PatternAt(p, t, k)})
    IN  [i \in 1..Len(ks) |-> Capture(p, t, ks[i])]

\* the matches of the six patterns, in the order the two loops visit them
RECURSIVE AllMatches(_, _)
AllMatches(t, p) ==
    IF p > 6 THEN <<>> ELSE FindAll(p, t) \o AllMatches(t, p + 1)

InSeq(x, s) == \E k \in 1..Len(s) : s[k] = x

\* append each item that the list does not hold yet
RECURSIVE AppendNew(_, _)
AppendNew(list, items) ==
    IF items = <<>> THEN list
    ELSE AppendNew(IF InSeq(Head(items), list) THEN list
                   ELSE Append(list, Head(items)), Tail(items))

\* the span that "@?username" (ignoring case) matches inside a word
MentionWords == {"@alice", "alice", "Alice", "(@alice)"}
MentionStart(w) == IF w = "(@alice)" THEN 1 ELSE 0
MentionEnd(w) == IF w \in {"alice", "Alice"} THEN 5
                 ELSE IF w = "(@alice)" THEN 7 ELSE 6

\* the program's numbers
ContextRadius == 100
MinContextLen == 50
ContentLimit == 500

\* markdown[start_pos:end_pos].strip() around the mention in word k
ContextAt(markdown, k) ==
    LET start_pos == Max(0, StartOf(markdown, k)
                              + MentionStart(markdown[k].w) - ContextRadius)
        end_pos == Min(TextLen(markdown),
                       StartOf(markdown, k) + MentionEnd(markdown[k].w)
                         + ContextRadius)
    IN  Slice(markdown, start_pos, end_pos)

\* the two re.sub calls: drop the first word and then the last word, each
\* only when another word follows or precedes it
CleanContext(context) ==
    LET c1 == IF Len(context) >= 2 THEN Tail(context) ELSE context
    IN  IF Len(c1) >= 2 THEN SubSeq(c1, 1, Len(c1) - 1) ELSE c1

\* the loop over username_mentions
RECURSIVE AddContexts(_, _, _)
AddContexts(infos, markdown, ks) ==
    IF ks = <<>> THEN infos
    ELSE LET context == ContextAt(markdown, Head(ks))
             cleaned == CleanContext(context)
             next == IF /\ context # <<>>
                        /\ TextLen(context) > MinContextLen
                        /\ ~AnySimilar(cleaned, infos)
                     THEN Append(infos, cleaned) ELSE infos
         IN  AddContexts(next, markdown, Tail(ks))

\* the body of "for result in results"
ProcessResult(found, result) ==
    LET markdown == IF "markdown" \in DOMAIN result
                    THEN result.markdown ELSE <<>>
        metadata == IF "metadata" \in DOMAIN result
                    THEN result.metadata ELSE [title |-> ""]
        url == IF "url" \in DOMAIN metadata THEN metadata.url ELSE ""
        mentions == Ascending({k \in 1..Len(markdown) :
                                  markdown[k].w \in MentionWords})
    IN  [username |-> found.username,
         related_links |->
             IF url # "" /\ ~InSeq(url, found.related_links)
             THEN Append(found.related_links, url)
             ELSE found.related_links,
         potential_names |->
             AppendNew(found.potential_names, AllMatches(markdown, 1)),
         potential_info |->
             AddContexts(found.potential_info, markdown, mentions)]

RECURSIVE ProcessResults(_, _)
ProcessResults(found, results) ==
    IF results = <<>> THEN found
    ELSE ProcessResults(ProcessResult(found, Head(results)), Tail(results))

\* content[:500]
Truncate(content) == Slice(content, 0, ContentLimit)

\* the loop over result.get('content', [])
RECURSIVE AddContents(_, _)
AddContents(infos, contents) ==
    IF contents = <<>> THEN infos
    ELSE LET content == Head(contents)
             next == IF content # <<>> /\ ~AnySimilar(content, infos)
                     THEN Append(infos, Truncate(content)) ELSE infos
         IN  AddContents(next, Tail(contents))

(* search_by_username.py: the script and the server it talks to *)

MaxUserResults == 2     \* results in one /raw-search answer
MaxContents == 2        \* items of "content" in one /search answer

\* main: the command-line argument, with and without the leading "@"
Argv == {"alice", "@alice"}
StripAt(arg) == IF arg = "@alice" THEN "alice" ELSE arg

IdentityTemplates == <<
    "@{username} twitter who is this person real name",
    "@{username} real name person behind twitter account",
    "who is @{username} on twitter personal information">>

IdentityPost(username, i) ==
    [endpoint |-> "/raw-search",
     json |-> [query |-> [template |-> IdentityTemplates[i],
                          username |-> username],
               max_results |-> 3,
               scraping_tool |-> "browser-playwright",
               output_format |-> "markdown"]]

PersonPost(username, potential_name) ==
    [endpoint |-> "/search",
     json |-> [name |-> potential_name,
               context |-> [template |-> "related to twitter @{username}",
                            username |-> username],
               max_results |-> 3]]

Link1 == "https://a.example/ada"
Link2 == "https://b.example/grace"

\* the result items that /raw-search may answer with
UserPool == {
    [markdown |-> Text(<<"@alice", "is", "Ada", "Lovelace", "url60", "the",
                         "first", "about">>),
     metadata |-> [url |-> Link1, title |-> "Ada"]],
    [markdown |-> Text(<<"Grace", "Hopper", "known", "as", "@alice", "url61",
                         "navy">>),
     metadata |-> [url |-> Link2, title |-> "Grace"]],
    [markdown |-> Text(<<"@alice", "is", "ada", "lovelace", "url60", "the",
                         "first", "London">>),
     metadata |-> [url |-> Link1, title |-> "ada"]],
    [markdown |-> Text(<<"about", "nothing">>)],
    [metadata |-> [url |-> "", title |-> ""]],
    [markdown |-> Text(<<"Ada", "Lovelace", "(@alice)", "from", "London">>),
     metadata |-> [title |-> "short"]],
    [markdown |-> Text(<<"Ada", "Lovelace,", "@alice", "real", "name", "is",
                         "Grace", "Hopper">>),
     metadata |-> [url |-> Link2, title |-> "both"]],
    [markdown |-> Text(<<"url60", "url61", "alice", "url60", "url61",
                         "about">>),
     metadata |-> [url |-> "https://c.example/long", title |-> "long"]] }

Url60x8 == <<"url60", "url60", "url60", "url60",
             "url60", "url60", "url60", "url60">>
Url61x8 == <<"url61", "url61", "url61", "url61",
             "url61", "url61", "url61", "url61">>

\* the items that the "content" list of a /search answer may hold
ContentPool == {
    Text(Url60x8 \o <<"Ada", "Lovelace", "about", "nothing", "from">>),
    Text(<<"Ada", "Lovelace", "London">>),
    Text(Url61x8 \o <<"about">>),
    <<>> }

UserErrorStatus == {400, 500}

\* what the server may answer to POST /raw-search
RawReplies ==
    [status_code : {200}, json : BoundedSeq(UserPool, MaxUserResults)]
      \cup [status_code : UserErrorStatus, json : {[error |-> "error"]}]

\* what the server may answer to POST /search
PersonReplies ==
    [status_code : {200},
     json : {[name |-> "profile"]}
              \cup [content : BoundedSeq(ContentPool, MaxContents)]]
      \cup [status_code : UserErrorStatus, json : {[error |-> "error"]}]

InitUser ==
    /\ pc = "main"
    /\ call = NoCall
    /\ params = NoParams
    /\ gets = 0
    /\ response = NoResponse
    /\ search_results = <<>>
    /\ idx = 0
    /\ formatted_results = None
    /\ outcome = NoOutcome
    /\ request = NoRequest
    /\ http_response = NoHttpResponse
    /\ found_info = NoFoundInfo
    /\ posted = <<>>
    /\ last_status = 0
    /\ environ = None
    /\ api_token = None

otherVars == <<call, params, gets, response, search_results, idx,
               formatted_results, outcome, request, http_response,
               environ, api_token>>

\* the number of /raw-search requests sent so far
RawPosted == Cardinality({k \in 1..Len(posted) :
                             posted[k].endpoint = "/raw-search"})

\* main, lines 179-186, and the start of find_info_by_username
main ==
    /\ pc = "main"
    /\ \E arg \in Argv :
          found_info' = [username |-> StripAt(arg),
                         potential_names |-> <<>>,
                         potential_info |-> <<>>,
                         related_links |-> <<>>]
    /\ pc' = "queries"
    /\ UNCHANGED <<posted, last_status>>
    /\ UNCHANGED otherVars

\* the next identity query is posted to /raw-search
PostIdentityQuery ==
    /\ pc = "queries"
    /\ RawPosted < Len(IdentityTemplates)
    /\ posted' = Append(posted,
                        IdentityPost(found_info.username, RawPosted + 1))
    /\ pc' = "raw_wait"
    /\ UNCHANGED <<found_info, last_status>>
    /\ UNCHANGED otherVars

\* the variables that search_by_username.py never touches
clientVars == <<call, params, gets, search_results, idx, formatted_results,
                outcome, request, http_response, environ, api_token>>

\* IdentityReply with a loop that gives up at the first answer that is not
\* a 200
IdentityReply_StopOnError ==
    /\ pc = "raw_wait"
    /\ \E resp \in RawReplies :
          /\ last_status' = resp.status_code
          /\ IF resp.status_code = 200
             THEN response' = resp /\ pc' = "results"
             ELSE response' = response /\ pc' = "finished"
    /\ UNCHANGED <<found_info, posted>>
    /\ UNCHANGED clientVars

\* its answer arrives, lines 54-61 and 104-105: a 200 is kept to be
\* processed, anything else is only printed and the loop goes on
IdentityReply ==
    /\ pc = "raw_wait"
    /\ \E resp \in RawReplies :
          /\ last_status' = resp.status_code
          /\ IF resp.status_code = 200
             THEN response' = resp /\ pc' = "results"
             ELSE response' = response /\ pc' = "queries"
    /\ UNCHANGED <<found_info, posted>>
    /\ UNCHANGED clientVars

\* the loop over the results of a 200, lines 64-103; response and results
\* are not read again before the next answer is assigned to them, so the
\* model drops them when the loop ends
ProcessIdentityResults ==
    /\ pc = "results"
    /\ found_info' = ProcessResults(found_info, response.json)
    /\ response' = NoResponse
    /\ pc' = "queries"
    /\ UNCHANGED <<posted, last_status>>
    /\ UNCHANGED clientVars

\* requests.post raises (no connection to the server), lines 54 and 119:
\* nothing catches it and the script ends
RequestRaises ==
    /\ pc \in {"raw_wait", "person_wait"}
    /\ pc' = "raised"
    /\ UNCHANGED <<found_info, posted, last_status>>
    /\ UNCHANGED otherVars

\* step 2 with a potential name: one POST /search for the first name
PostPersonSearch ==
    /\ pc = "queries"
    /\ RawPosted = Len(IdentityTemplates)
    /\ found_info.potential_names # <<>>
    /\ posted' = Append(posted, PersonPost(found_info.username,
                                           found_info.potential_names[1]))
    /\ pc' = "person_wait"
    /\ UNCHANGED <<found_info, last_status>>
    /\ UNCHANGED otherVars

\* step 2 without any potential name: nothing is sent
SkipPersonSearch ==
    /\ pc = "queries"
    /\ RawPosted = Len(IdentityTemplates)
    /\ found_info.potential_names = <<>>
    /\ pc' = "finished"
    /\ UNCHANGED <<found_info, posted, last_status>>
    /\ UNCHANGED otherVars

\* the answer to POST /search
PersonReply ==
    /\ pc = "person_wait"
    /\ \E resp \in PersonReplies :
          /\ last_status' = resp.status_code
          /\ found_info' =
               IF resp.status_code = 200
               THEN [found_info EXCEPT !.potential_info =
                       AddContents(@, IF "content" \in DOMAIN resp.json
                                      THEN resp.json.content ELSE <<>>)]
               ELSE found_info
    /\ pc' = "finished"
    /\ UNCHANGED posted
    /\ UNCHANGED otherVars

NextUser ==
    \/ main
    \/ PostIdentityQuery
    \/ IdentityReply
    \/ ProcessIdentityResults
    \/ RequestRaises
    \/ PostPersonSearch
    \/ SkipPersonSearch
    \/ PersonReply

SpecUser == InitUser /\ [][NextUser]_vars

----------------------------------------------------------------------------
(* Two calls of search_for_person on one client, interleaved *)

\* In this specification pc, call, params, gets, response, search_results,
\* idx, formatted_results and outcome are functions of the call: each call
\* has its own frame.  The client object (token, base URL) is the only thing
\* the calls have in common.
Calls == 1..2

MaxPairResults == 2

\* the result objects the upstream answers with here
PairPool ==
    { [metadata |-> JObject([url |-> JString(U_x_alice), title |-> JString(Title)]),
       markdown |-> JString(M_all)],
      [metadata |-> JObject([url |-> JString(U_tw_bob), title |-> JString(Title)])],
      [metadata |-> JObject([url |-> JNull, title |-> JString(Title)])] }

PairResponses == UpstreamResponses(PairPool, MaxPairResults)

\* mutant of ProfileOwner: one profile dict serves every call
ProfileOwner_Shared(i) == 1

\* formatted_results is a dict literal evaluated inside the call (lines
\* 111-121): the call i works on the profile of call i
ProfileOwner(i) == i

InitPair ==
    /\ pc = [i \in Calls |-> "idle"]
    /\ call = [i \in Calls |-> NoCall]
    /\ params = [i \in Calls |-> NoParams]
    /\ gets = [i \in Calls |-> 0]
    /\ response = [i \in Calls |-> NoResponse]
    /\ search_results = [i \in Calls |-> <<>>]
    /\ idx = [i \in Calls |-> 0]
    /\ formatted_results = [i \in Calls |-> None]
    /\ outcome = [i \in Calls |-> NoOutcome]
    /\ request = NoRequest
    /\ http_response = NoHttpResponse
    /\ found_info = NoFoundInfo
    /\ posted = <<>>
    /\ last_status = 0
    /\ environ = ApiToken
    /\ api_token = ApiToken

\* lines 76-108 for call i
pair_call(i) ==
    /\ pc[i] = "idle"
    /\ \E name \in Names, ctx \in Contexts, focus \in BOOLEAN :
          call' = [call EXCEPT ![i] = SearchForPersonCall(name, ctx, 3, focus)]
    /\ pc' = [pc EXCEPT ![i] = "get"]
    /\ UNCHANGED <<params, gets, response, search_results, idx,
                   formatted_results, outcome, request, http_response>>
    /\ UNCHANGED userVars
    /\ UNCHANGED procVars

\* line 67 for call i
pair_get(i) ==
    /\ pc[i] = "get"
    /\ params' = [params EXCEPT
                    ![i] = SearchParams(api_token, call[i].query, call[i].kw)]
    /\ gets' = [gets EXCEPT ![i] = @ + 1]
    /\ pc' = [pc EXCEPT ![i] = "awaiting"]
    /\ UNCHANGED <<call, response, search_results, idx, formatted_results,
                   outcome, request, http_response>>
    /\ UNCHANGED userVars
    /\ UNCHANGED procVars

\* lines 67-74 and 111-121 for call i
pair_reply(i) ==
    /\ pc[i] = "awaiting"
    /\ \E resp \in PairResponses :
          /\ response' = [response EXCEPT ![i] = resp]
          /\ IF resp.status_code = 200
             THEN /\ search_results' =
                        [search_results EXCEPT ![i] = ResponseJson(resp)]
                  /\ formatted_results' =
                        [formatted_results EXCEPT ![ProfileOwner(i)] =
                            NewProfile(call[i].query, call[i].name)]
                  /\ pc' = [pc EXCEPT ![i] = "loop"]
                  /\ UNCHANGED outcome
             ELSE /\ outcome' = [outcome EXCEPT ![i] =
                        Raise(UpstreamError(resp.status_code, resp.text))]
                  /\ pc' = [pc EXCEPT ![i] = "done"]
                  /\ UNCHANGED <<search_results, formatted_results>>
    /\ UNCHANGED <<call, params, gets, idx, request, http_response>>
    /\ UNCHANGED userVars
    /\ UNCHANGED procVars

\* lines 123-141 for the next result of call i
pair_source(i) ==
    /\ pc[i] = "loop"
    /\ idx[i] < Len(search_results[i])
    /\ LET r == SourceStage(formatted_results[ProfileOwner(i)],
                            search_results[i][idx[i] + 1]) IN
        /\ formatted_results' =
              [formatted_results EXCEPT ![ProfileOwner(i)] = r.fr]
        /\ IF r.exc = NoExc
           THEN pc' = [pc EXCEPT ![i] = "content"] /\ UNCHANGED outcome
           ELSE /\ pc' = [pc EXCEPT ![i] = "done"]
                /\ outcome' = [outcome EXCEPT ![i] = Raise(r.exc)]
    /\ UNCHANGED <<call, params, gets, response, search_results, idx,
                   request, http_response>>
    /\ UNCHANGED userVars
    /\ UNCHANGED procVars

\* lines 143-162 for the same result of call i
pair_content(i) ==
    /\ pc[i] = "content"
    /\ LET r == ContentStage(formatted_results[ProfileOwner(i)],
                             search_results[i][idx[i] + 1]) IN
        /\ formatted_results' =
              [formatted_results EXCEPT ![ProfileOwner(i)] = r.fr]
        /\ IF r.exc = NoExc
           THEN /\ pc' = [pc EXCEPT ![i] = "loop"]
                /\ idx' = [idx EXCEPT ![i] = @ + 1]
                /\ UNCHANGED outcome
           ELSE /\ pc' = [pc EXCEPT ![i] = "done"]
                /\ outcome' = [outcome EXCEPT ![i] = Raise(r.exc)]
                /\ UNCHANGED idx
    /\ UNCHANGED <<call, params, gets, response, search_results,
                   request, http_response>>
    /\ UNCHANGED userVars
    /\ UNCHANGED procVars

\* line 164 for call i
pair_return(i) ==
    /\ pc[i] = "loop"
    /\ idx[i] = Len(search_results[i])
    /\ outcome' = [outcome EXCEPT
                     ![i] = Return(formatted_results[ProfileOwner(i)])]
    /\ pc' = [pc EXCEPT ![i] = "done"]
    /\ UNCHANGED <<call, params, gets, response, search_results, idx,
                   formatted_results, request, http_response>>
    /\ UNCHANGED userVars
    /\ UNCHANGED procVars

NextPair ==
    \E i \in Calls :
        \/ pair_call(i)
        \/ pair_get(i)
        \/ pair_reply(i)
        \/ pair_source(i)
        \/ pair_content(i)
        \/ pair_return(i)

SpecPair == InitPair /\ [][NextPair]_vars

\* search_for_person run from line 123 to its end on its own
RECURSIVE RunLoop(_, _, _)
RunLoop(fr, results, k) ==
    IF k > Len(results) THEN Return(fr)
    ELSE LET s == SourceStage(fr, results[k]) IN
         IF s.exc # NoExc THEN Raise(s.exc)
         ELSE LET c == ContentStage(s.fr, results[k]) IN
              IF c.exc # NoExc THEN Raise(c.exc)
              ELSE RunLoop(c.fr, results, k + 1)

\* the outcome of search_for_person(args) run alone against the answer resp
RunAlone(args, resp) ==
    IF resp.status_code # 200
    THEN Raise(UpstreamError(resp.status_code, resp.text))
    ELSE RunLoop(NewProfile(PersonQuery(args.name, args.additional_context,
                                        args.focus_x_account), args.name),
                 ResponseJson(resp), 1)

----------------------------------------------------------------------------
(* is_similar_text called on its own *)

MaxWords == 2

\* the words of the texts compared here, and extra whitespace
SimWords == {Word("Ada"), Word("ada"), Word("Lovelace"), Word("the"),
             Word("is"), Blank}

\* "" and the texts of up to MaxWords items
SimTexts == BoundedSeq(SimWords, MaxWords)

\* the thresholds -0.5, 0.5, 0.7 and 1.0
Thresholds == {[num |-> 0 - 1, den |-> 2], [num |-> 1, den |-> 2],
               DefaultThreshold, [num |-> 1, den |-> 1]}

\* is_similar_text(text1, text2, threshold) is called and returns
CallIsSimilarText ==
    /\ pc = "idle"
    /\ \E text1 \in SimTexts, text2 \in SimTexts, threshold \in Thresholds :
          /\ call' = [fn |-> "is_similar_text", text1 |-> text1,
                      text2 |-> text2, threshold |-> threshold]
          /\ outcome' = Return(is_similar_text(text1, text2, threshold))
    /\ pc' = "done"
    /\ UNCHANGED <<params, gets, response, search_results, idx,
                   formatted_results, request, http_response>>
    /\ UNCHANGED userVars
    /\ UNCHANGED procVars

NextSim == CallIsSimilarText

SpecSim == InitClient /\ [][NextSim]_vars

----------------------------------------------------------------------------
(* search_rag.py: the output of the MCP tools *)

\* A str is the sequence of its pieces, as everywhere above.
\* f"{v}" for a str or None
Fmt(v) == IF IsNone(v) THEN <<"None">> ELSE v.val

\* str(e) of the exceptions that reach the tools
ExcStr(e) ==
    IF "status_code" \in DOMAIN e.msg
    THEN <<"Error ", ToString(e.msg.status_code), ": ">> \o Fmt(e.msg.text)
    ELSE <<e.msg.template>>

\* the concatenation of a sequence of strs
RECURSIVE Concat(_)
Concat(parts) ==
    IF parts = <<>> THEN <<>> ELSE Head(parts) \o Concat(Tail(parts))

\* mutant of ToolError: the text of the exception is left out
ToolError_NoMessage(what, e) == Str(<<"Error: ", what>>)

\* lines 112-114 and 194-196: f"Error: {error_msg}" with
\* error_msg = f"Error <what>: {str(e)}"
ToolError(what, e) == Str(<<"Error: ", what>> \o ExcStr(e))

\* lines 86-91: the line of one social link, if the slot holds one
SocialLine(label, link) ==
    IF Truthy(link) THEN <<label>> \o link.val \o <<"\n">> ELSE <<>>

\* lines 83-92
SocialBlock(social_links) ==
    IF \E p \in Platforms : Truthy(social_links[p])
    THEN <<"## Social Media\n">>
           \o SocialLine("- X/Twitter: ", social_links["x_twitter"])
           \o SocialLine("- Instagram: ", social_links["instagram"])
           \o SocialLine("- Facebook: ", social_links["facebook"])
           \o <<"\n">>
    ELSE <<>>

\* line 98 for the source i
SourceLine(i, source) ==
    <<ToString(i), ". [">> \o Fmt(source.title) \o <<"](">> \o Fmt(source.url)
        \o <<")\n">>

\* lines 95-99
SourcesBlock(sources) ==
    IF sources = <<>> THEN <<>>
    ELSE <<"## Sources\n">>
           \o Concat([i \in 1..Len(sources) |-> SourceLine(i, sources[i])])
           \o <<"\n">>

\* lines 106-107 for the content i
ContentEntry(i, content, sources) ==
    <<"### Content ", ToString(i)>>
        \o (IF i <= Len(sources) THEN <<" (Source: ", ToString(i), ")">>
            ELSE <<>>)
        \o <<"\n\n">> \o Fmt(content) \o <<"\n\n">>

\* lines 102-107
ContentBlock(contents, sources) ==
    IF contents = <<>> THEN <<>>
    ELSE <<"## Content\n">>
           \o Concat([i \in 1..Len(contents) |->
                        ContentEntry(i, contents[i], sources)])

\* lines 80-109: formatted_output of person_search
PersonOutput(name, result) ==
    Str(<<"# Information about ">> \o Fmt(name) \o <<"\n\n">>
          \o SocialBlock(result.social_links)
          \o SourcesBlock(result.sources)
          \o ContentBlock(result.content, result.sources))

AttributeError ==
    [type |-> "AttributeError",
     msg |-> [template |-> "'NoneType' object has no attribute 'get'"]]

\* result.get(key, {}) is None: the .get that follows raises
NullDict(result, key) == key \in DOMAIN result /\ IsNone(result[key])

\* result.get(key, {}).get(field) when the first .get gives a dict
Field(result, key, field) ==
    IF key \in DOMAIN result
    THEN Get(result[key].items, field, None) ELSE None

\* the code fence of line 179, three backquotes (a character that a
\* string of this module cannot hold)
Fence == "<three backquotes>"

\* lines 164-186 for the result i: its text, or the exception of a .get on
\* None.  The `or` chains read searchResult only when metadata gives no
\* truthy value.
RawEntry(i, result, output_format) ==
    LET mtitle == Field(result, "metadata", "title")
        murl == Field(result, "metadata", "url")
        needs_sr == ~Truthy(mtitle) \/ ~Truthy(murl)
        stitle == Field(result, "searchResult", "title")
        surl == Field(result, "searchResult", "url")
        title == IF Truthy(mtitle) THEN mtitle.val
                 ELSE IF Truthy(stitle) THEN stitle.val
                 ELSE <<"Result ", ToString(i)>>
        url == IF Truthy(murl) THEN murl.val
               ELSE IF Truthy(surl) THEN surl.val
               ELSE <<"No URL available">>
        head == <<"## ", ToString(i), ". ">> \o title \o <<"\n", "Source: ">>
                  \o url \o <<"\n\n">>
        shown == \/ output_format = "markdown" /\ "markdown" \in DOMAIN result
                 \/ output_format = "text" /\ "text" \in DOMAIN result
                 \/ output_format = "html" /\ "html" \in DOMAIN result
        description ==
            IF "searchResult" \in DOMAIN result
               /\ "description" \in DOMAIN result.searchResult.items
            THEN Fmt(result.searchResult.items.description)
            ELSE <<"No description available">>
        body == IF output_format = "markdown" /\ "markdown" \in DOMAIN result
                THEN Fmt(result.markdown) \o <<"\n\n">>
                ELSE IF output_format = "text" /\ "text" \in DOMAIN result
                THEN <<Fence, "\n">> \o Fmt(result.text)
                       \o <<"\n", Fence, "\n\n">>
                ELSE IF output_format = "html" /\ "html" \in DOMAIN result
                THEN <<"HTML content available but not displayed in this view.\n\n">>
                ELSE description \o <<"\n\n">>
    IN  IF NullDict(result, "metadata") THEN [text |-> <<>>, exc |-> AttributeError]
        ELSE IF (needs_sr \/ ~shown) /\ NullDict(result, "searchResult")
        THEN [text |-> <<>>, exc |-> AttributeError]
        ELSE [text |-> head \o body \o <<"---\n\n">>, exc |-> NoExc]

\* lines 160-191: formatted_output of raw_search, or the first exception
\* of the loop
RawOutput(query, results, output_format) ==
    LET entries == [i \in 1..Len(results) |->
                       RawEntry(i, results[i], output_format)]
        failed == {i \in 1..Len(results) : entries[i].exc # NoExc}
    IN  IF failed # {}
        THEN [text |-> EmptyStr,
              exc |-> entries[CHOOSE i \in failed :
                                 \A j \in failed : i <= j].exc]
        ELSE [text |-> Str(<<"# Search Results for '">> \o Fmt(query)
                             \o <<"'\n\n">>
                             \o Concat([i \in 1..Len(results) |->
                                          entries[i].text])
                             \o (IF results = <<>>
                                 THEN <<"No results found for this query.\n">>
                                 ELSE <<>>)),
              exc |-> NoExc]

(* search_rag.py: the MCP tools *)

MaxToolResults == 2

\* the arguments of the tool calls, with the defaults filled in
PersonSearchArgs ==
    [name : Names, context : Contexts, max_results : {3},
     focus_x_account : BOOLEAN]

RawSearchArgs ==
    [query : {Query}, max_results : {3},
     scraping_tool : {"browser-playwright", "raw-http", "selenium"},
     output_format : {"markdown", "text", "html", "json"}]

ToolCalls ==
    {[endpoint |-> "person_search", data |-> a] : a \in PersonSearchArgs}
    \cup {[endpoint |-> "raw_search", data |-> a] : a \in RawSearchArgs}

\* mutant of InvalidToolParams: nothing is rejected
InvalidToolParams_Never(args) == FALSE

\* the two tests of lines 138 and 141
InvalidToolParams(args) ==
    \/ args.scraping_tool \notin {"browser-playwright", "raw-http"}
    \/ args.output_format \notin {"markdown", "text", "html"}

\* the error string of lines 139 and 142
ValidationError(args) ==
    IF args.scraping_tool \notin {"browser-playwright", "raw-http"}
    THEN Str(<<"Error: ", "scraping_tool must be either 'browser-playwright' or 'raw-http'">>)
    ELSE Str(<<"Error: ", "output_format must be either 'markdown', 'text', or 'html'">>)

\* what a tool hands back to the MCP client
ToolResult(text) == [tool_result |-> text]

\* requests.get found no server to talk to
ConnectionError ==
    [type |-> "ConnectionError", msg |-> [template |-> "Connection refused"]]

\* the server after its startup (lines 24-43): the client exists
InitMcp ==
    /\ pc = "serving"
    /\ call = NoCall
    /\ params = NoParams
    /\ gets = 0
    /\ response = NoResponse
    /\ search_results = <<>>
    /\ idx = 0
    /\ formatted_results = None
    /\ outcome = NoOutcome
    /\ request = NoRequest
    /\ http_response = NoHttpResponse
    /\ found_info = NoFoundInfo
    /\ posted = <<>>
    /\ last_status = 0
    /\ environ = ApiToken
    /\ api_token = ApiToken

\* an MCP client calls a tool; the tool starts with its own fresh locals
call_tool ==
    /\ pc \in {"serving", "responded"}
    /\ \E req \in ToolCalls : request' = req
    /\ pc' = "tool"
    /\ call' = NoCall
    /\ params' = NoParams
    /\ gets' = 0
    /\ response' = NoResponse
    /\ search_results' = <<>>
    /\ idx' = 0
    /\ formatted_results' = None
    /\ outcome' = NoOutcome
    /\ http_response' = NoHttpResponse
    /\ UNCHANGED userVars
    /\ UNCHANGED procVars

\* person_search, lines 66-73
tool_person_search_call ==
    /\ pc = "tool"
    /\ request.endpoint = "person_search"
    /\ LET a == request.data IN
           EnterSearchForPerson(a.name, a.context, a.max_results,
                                a.focus_x_account)
    /\ UNCHANGED <<params, gets, response, search_results, idx,
                   formatted_results, outcome, request, http_response>>
    /\ UNCHANGED userVars
    /\ UNCHANGED procVars

\* person_search, lines 75-114: the formatted profile, or the error string
\* of the except branch
tool_person_search_return ==
    /\ pc = "done"
    /\ request.endpoint = "person_search"
    /\ http_response' =
          IF outcome.kind = "return"
          THEN ToolResult(PersonOutput(request.data.name, outcome.value))
          ELSE ToolResult(ToolError("Error searching for person: ",
                                    outcome.exc))
    /\ pc' = "responded"
    /\ UNCHANGED <<call, params, gets, response, search_results, idx,
                   formatted_results, outcome, request>>
    /\ UNCHANGED userVars
    /\ UNCHANGED procVars

\* raw_search, lines 137-142: a parameter is not one of the allowed values
tool_raw_search_reject ==
    /\ pc = "tool"
    /\ request.endpoint = "raw_search"
    /\ InvalidToolParams(request.data)
    /\ http_response' = ToolResult(ValidationError(request.data))
    /\ pc' = "responded"
    /\ UNCHANGED <<call, params, gets, response, search_results, idx,
                   formatted_results, outcome, request>>
    /\ UNCHANGED userVars
    /\ UNCHANGED procVars

\* raw_search, lines 144-155
tool_raw_search_call ==
    /\ pc = "tool"
    /\ request.endpoint = "raw_search"
    /\ ~InvalidToolParams(request.data)
    /\ LET a == request.data IN
           EnterSearch(a.query,
               [max_results |-> a.max_results,
                scraping_tool |-> a.scraping_tool,
                output_format |-> a.output_format,
                request_timeout_secs |-> 40,
                dynamic_content_wait_secs |-> 10,
                remove_cookie_warnings |-> TRUE,
                debug_mode |-> FALSE])
    /\ UNCHANGED <<params, gets, response, search_results, idx,
                   formatted_results, outcome, request, http_response>>
    /\ UNCHANGED userVars
    /\ UNCHANGED procVars

\* raw_search, lines 157-196: the formatted results, or the error string of
\* the except branch for a failure of search or of the formatting
tool_raw_search_return ==
    /\ pc = "done"
    /\ request.endpoint = "raw_search"
    /\ http_response' =
          IF outcome.kind = "return"
          THEN LET r == RawOutput(request.data.query, outcome.value,
                                  request.data.output_format)
               IN  IF r.exc = NoExc THEN ToolResult(r.text)
                   ELSE ToolResult(ToolError("Error performing raw search: ",
                                             r.exc))
          ELSE ToolResult(ToolError("Error performing raw search: ",
                                    outcome.exc))
    /\ pc' = "responded"
    /\ UNCHANGED <<call, params, gets, response, search_results, idx,
                   formatted_results, outcome, request>>
    /\ UNCHANGED userVars
    /\ UNCHANGED procVars

\* line 67 of the client: requests.get raises instead of returning
search_get_raises ==
    /\ pc = "awaiting"
    /\ outcome' = Raise(ConnectionError)
    /\ pc' = "done"
    /\ UNCHANGED <<call, params, gets, response, search_results, idx,
                   formatted_results, request, http_response>>
    /\ UNCHANGED userVars
    /\ UNCHANGED procVars

SearchResult ==
    JObject([title |-> JString(Title), url |-> JString(U_web),
             description |-> JString(M_plain)])

\* the result objects the upstream answers with here
McpPool ==
    { [metadata |-> JObject([url |-> JString(U_x_alice), title |-> JString(Title)]),
       markdown |-> JString(M_plain)],
      [markdown |-> JString(M_igfb), searchResult |-> SearchResult],
      [metadata |-> JObject([url |-> JString(U_tw_bob)]),
       searchResult |-> SearchResult],
      [metadata |-> JObject([title |-> JString(Title)]), text |-> JString(M_plain)],
      [metadata |-> JNull, markdown |-> JString(M_x)],
      [metadata |-> JObject([url |-> JString(U_web), title |-> JString(Title)]),
       markdown |-> JString(M_plain), searchResult |-> JNull],
      [metadata |-> JObject([url |-> JNull, title |-> JString(Title)])] }

McpResponses == UpstreamResponses(McpPool, MaxToolResults)

McpReply ==
    /\ pc = "awaiting"
    /\ \E resp \in McpResponses : search_reply(resp)

NextMcp ==
    \/ call_tool
    \/ tool_person_search_call
    \/ tool_person_search_return
    \/ tool_raw_search_reject
    \/ tool_raw_search_call
    \/ tool_raw_search_return
    \/ search_get
    \/ search_get_raises
    \/ McpReply
    \/ SourceStep
    \/ ContentStep
    \/ ReturnProfile

SpecMcp == InitMcp /\ [][NextMcp]_vars

----------------------------------------------------------------------------
(* Properties of search_for_person *)

\* a scan of search_for_person is in progress or over
Scanning == call.fn = "search_for_person" /\ response.status_code = 200

\* the result whose iteration is in progress
Current == search_results[idx + 1]

Links == formatted_results.social_links

\* the result carries a metadata url (the test of line 125)
CarriesUrl(r) ==
    /\ "metadata" \in DOMAIN r
    /\ r.metadata.type = "dict"
    /\ "url" \in DOMAIN r.metadata.items

\* the platform whose slot the result's own URL was written to, or "none"
OwnPlatform(r) ==
    IF CarriesUrl(r) /\ IsStr(r.metadata.items.url)
    THEN DirectPlatform(r.metadata.items.url.val)
    ELSE "none"

\* the result's own URL passes one of the three substring tests
OwnUrlMatches(r) == OwnPlatform(r) # "none"

\* the link the content of r yields for p, or None
ContentLink(r, p) ==
    IF "markdown" \in DOMAIN r /\ IsStr(r.markdown) /\ HasMatch(r.markdown.val, p)
    THEN LinkFromMatch(p, FirstMatch(r.markdown.val, p))
    ELSE None

\* C1: a platform slot that holds a URL keeps that URL while every later
\* result is processed, whether the later result matches through its own
\* URL or through its content.
C1_SlotNeverOverwritten ==
    [][(Scanning /\ pc \in {"loop", "content"})
         => \A p \in Platforms :
               Links[p] # None => formatted_results'.social_links[p] = Links[p]]_vars

\* C2 as stated: a result whose own URL matched any platform never fills a
\* slot from its content.
C2_ContentOnlyIfNoUrlMatch ==
    [][(Scanning /\ pc = "content")
         => \A p \in Platforms :
               formatted_results'.social_links[p] # Links[p] => ~OwnUrlMatches(Current)]_vars

\* C2 as amended: the content of a result fills the slot of platform p only
\* if that slot is still empty after the result's own URL check, so never
\* the slot its own URL was written to; the slots of the other platforms
\* it may fill.
C2_ContentOnlyIntoEmptySlot ==
    [][(Scanning /\ pc = "content")
         => \A p \in Platforms :
               formatted_results'.social_links[p] # Links[p]
                   => /\ ~Truthy(Links[p])
                      /\ OwnPlatform(Current) # p
                      /\ formatted_results'.social_links[p] = ContentLink(Current, p)]_vars

\* a result whose own URL went to X has filled Instagram from its content
C2_Witness ==
    /\ Scanning /\ pc = "loop" /\ idx = 1
    /\ OwnPlatform(search_results[1]) = "x_twitter"
    /\ Links["x_twitter"] = search_results[1].metadata.items.url
    /\ Links["instagram"] # None
    /\ Links["instagram"] = ContentLink(search_results[1], "instagram")

\* C3: a link found by a regular expression in content is written to a
\* slot only when no direct-URL check of the current or an earlier result
\* has filled that slot; a result whose own URL went to platform p leaves
\* its own URL in the slot even when its content holds another p link.
C3_RegexOnlyWithoutDirectUrl ==
    [][(Scanning /\ pc = "content")
         => \A p \in Platforms :
               /\ formatted_results'.social_links[p] # Links[p]
                     => \A k \in 1..(idx + 1) : OwnPlatform(search_results[k]) # p
               /\ OwnPlatform(Current) = p
                     => formatted_results'.social_links[p] = Current.metadata.items.url]_vars

\* own URL on X, content with a different X link: the slot holds the own URL
C3_Witness ==
    /\ Scanning /\ pc = "loop" /\ idx >= 1
    /\ OwnPlatform(search_results[idx]) = "x_twitter"
    /\ ContentLink(search_results[idx], "x_twitter") # None
    /\ ContentLink(search_results[idx], "x_twitter") # search_results[idx].metadata.items.url
    /\ Links["x_twitter"] = search_results[idx].metadata.items.url

\* C4: the scan of search_for_person never raises.
C4_ScanNeverRaises == Scanning => outcome.kind # "raise"

\* the (url, title) records of the results of rs that carry a metadata url
SourcesOf(rs) ==
    LET with == SelectSeq(rs, CarriesUrl) IN
    [k \in 1..Len(with) |->
        [url |-> with[k].metadata.items.url,
         title |-> IF "title" \in DOMAIN with[k].metadata.items
                   THEN with[k].metadata.items.title ELSE EmptyStr]]

IsPrefix(a, b) == Len(a) <= Len(b) /\ SubSeq(b, 1, Len(a)) = a

\* results whose source record has been written
SourcesDone == IF pc = "content" THEN idx + 1 ELSE idx

\* C10: after any prefix of the results, sources is the list of (url, title)
\* records of the processed results that carry a metadata url, in upstream
\* order; sources only grows at its end and is never longer than the
\* result list.
C10_SourcesFollowResults ==
    /\ [](Scanning =>
            /\ Len(formatted_results.sources) <= Len(search_results)
            /\ outcome.kind # "raise" =>
                  formatted_results.sources
                      = SourcesOf(SubSeq(search_results, 1, SourcesDone)))
    /\ [][Scanning /\ pc \in {"loop", "content"}
            => IsPrefix(formatted_results.sources, formatted_results'.sources)]_vars

\* three results, the middle one without url: two sources in upstream order
C10_Witness ==
    /\ Scanning /\ pc = "done" /\ outcome.kind = "return"
    /\ Len(search_results) = 3
    /\ CarriesUrl(search_results[1])
    /\ ~CarriesUrl(search_results[2])
    /\ CarriesUrl(search_results[3])
    /\ search_results[1] # search_results[3]
    /\ Len(formatted_results.sources) = 2

---------------------------------------------------------------------------
(* Properties of the Flask application *)

\* the request is a POST to /search or /raw-search whose body is absent or
\* has no 'name' (resp. 'query')
LacksRequired(req) ==
    /\ req.endpoint \in {"/search", "/raw-search"}
    /\ IF IsNone(req.data) THEN TRUE
       ELSE (IF req.endpoint = "/search" THEN "name" ELSE "query")
                \notin DOMAIN req.data.items

\* the upstream answered the GET of this request with a non-200 status
UpstreamFailed == response.status_code \notin {0, 200}

\* C6: a /search or /raw-search request whose body is absent or lacks the
\* required field is answered 400 with an error body, and no upstream GET
\* is issued at any point of its handling.
C6_MissingFieldRejected ==
    LacksRequired(request) =>
        /\ gets = 0
        /\ params = NoParams
        /\ call = NoCall
        /\ pc \in {"handler", "responded"}
        /\ pc = "responded" =>
              /\ http_response.status = 400
              /\ DOMAIN http_response.json = {"error"}

\* both endpoints have rejected a body without the required field
C6_Witness ==
    /\ pc = "responded"
    /\ LacksRequired(request)
    /\ request.data # None
    /\ DOMAIN request.data.items # {}
    /\ http_response.status = 400

\* C7 as stated: an upstream non-200 answer makes the endpoint return a
\* client error status (4xx) whose body carries the upstream status and
\* text and nothing else.
C7_UpstreamFailureClientError ==
    (pc = "responded" /\ UpstreamFailed) =>
        /\ http_response.status \in 400..499
        /\ http_response.json = [error |-> ErrorMsg(response.status_code, response.text)]

\* C7 as amended: the endpoint returns status 500 whose body is only
\* {"error": "Error <upstream status>: <upstream text>"}: no profile
\* fields, no result items.
C7_UpstreamFailureIs500 ==
    (pc = "responded" /\ UpstreamFailed) =>
        /\ http_response.status = 500
        /\ DOMAIN http_response.json = {"error"}
        /\ http_response.json.error = ErrorMsg(response.status_code, response.text)

\* /search answered after the upstream said 500
C7_Witness ==
    /\ pc = "responded"
    /\ request.endpoint = "/search"
    /\ response.status_code = 500
    /\ http_response.status = 500

\* C8: a request that passes validation issues exactly one upstream GET;
\* after a failed GET no further GET is issued for the request and the
\* request ends in failure.
C8_OneGetNoRetry ==
    /\ gets <= 1
    /\ pc \in {"awaiting", "loop", "content", "done"} => gets = 1
    /\ (pc = "responded" /\ request.endpoint \in {"/search", "/raw-search"}
          /\ ~LacksRequired(request)) => gets = 1
    /\ UpstreamFailed =>
          /\ gets = 1
          /\ pc \in {"done", "responded"}
          /\ outcome.kind = "raise"
          /\ pc = "responded" => http_response.status # 200

\* a request answered after its one GET failed
C8_Witness ==
    /\ pc = "responded"
    /\ UpstreamFailed
    /\ gets = 1
    /\ http_response.status # 200

\* C9: a successful /raw-search answers with the upstream's list: the same
\* items in the same order with the same fields; an item has a 'markdown'
\* field exactly when the upstream's item has one, whatever output_format.
C9_RawSearchPassesThrough ==
    (pc = "responded" /\ request.endpoint = "/raw-search" /\ http_response.status = 200) =>
        /\ http_response.json = response.body
        /\ \A k \in 1..Len(response.body) :
              ("markdown" \in DOMAIN http_response.json[k])
                  <=> ("markdown" \in DOMAIN response.body[k])

\* output_format "text", two items, only the second has 'markdown'
C9_Witness ==
    /\ pc = "responded"
    /\ request.endpoint = "/raw-search"
    /\ http_response.status = 200
    /\ params.outputFormat = "text"
    /\ Len(response.body) = 2
    /\ "markdown" \notin DOMAIN http_response.json[1]
    /\ "text" \in DOMAIN http_response.json[1]
    /\ "markdown" \in DOMAIN http_response.json[2]

----------------------------------------------------------------------------
(* Properties of find_info_by_username *)

\* the snippets retained so far
Retained == IF "potential_info" \in DOMAIN found_info
            THEN found_info.potential_info ELSE <<>>

\* C5: no two snippets retained in potential_info have a word-overlap ratio
\* (common distinct lower-cased words over the smaller distinct-word count)
\* above the threshold 0.7
C5_NoSimilarSnippetsRetained ==
    \A i, j \in 1..Len(Retained) :
        i # j => ~is_similar_text(Retained[i], Retained[j], DefaultThreshold)

----------------------------------------------------------------------------
(* Properties of the query of search_for_person *)

\* the call being made is search_for_person
PersonCall == call.fn = "search_for_person"

\* the query the three cases of the claim ask for
C11_Expected ==
    LET a == call.args
        focus == <<" ", "X", " ", "twitter", " ", "account", " ", "@">>
    IN  IF a.focus_x_account THEN Str(a.name.val \o focus)
        ELSE IF a.additional_context.val # <<>>
        THEN Str(a.name.val \o <<" ">> \o a.additional_context.val)
        ELSE a.name

\* C11: search_for_person sends '<name> X twitter account @' when
\* focus_x_account is true whatever the context, '<name> <context>' when
\* only the context is non-empty, and the bare name otherwise; the profile
\* it returns has that query as 'query', the name as 'person_name' and a
\* sources list of length >= 0
C11_QueryConstruction ==
    PersonCall =>
        /\ gets >= 1 => params.query = C11_Expected
        /\ (pc = "done" /\ outcome.kind = "return") =>
              /\ outcome.value.query = C11_Expected
              /\ outcome.value.person_name = call.args.name
              /\ Len(outcome.value.sources) >= 0

\* a search with no context and no focus returned a profile whose query is
\* the literal name, after the same name was sent upstream
C11_Witness ==
    /\ PersonCall
    /\ pc = "done"
    /\ outcome.kind = "return"
    /\ ~call.args.focus_x_account
    /\ call.args.additional_context = EmptyStr
    /\ params.query = call.args.name
    /\ outcome.value.query = Str(Title)
    /\ Len(outcome.value.sources) >= 1

\* the body of the /search request being handled asks for the X focus
AsksXFocus ==
    /\ request.endpoint = "/search"
    /\ ~MissingField(request.data, "name")
    /\ Get(request.data.items, "focus_x_account", FALSE) = TRUE

\* C12: a POST /search whose body carries focus_x_account=true sends the
\* upstream query '<name> X twitter account @'
C12_SearchHonoursXFocus ==
    (AsksXFocus /\ gets >= 1) =>
        params.query =
            Str(request.data.items.name.val
                  \o <<" ", "X", " ", "twitter", " ", "account", " ", "@">>)

----------------------------------------------------------------------------
(* Properties of interleaved calls *)

\* C13: for any interleaving of two person searches on the same client,
\* what each call returns (query, sources, content, social_links) or raises
\* is what the same call gets from the same upstream answer when run alone
C13_NoSharedState ==
    \A i \in Calls :
        pc[i] = "done" => outcome[i] = RunAlone(call[i].args, response[i])

\* both calls of a behaviour have returned, each a profile with a source,
\* and the two profiles differ
C13_Witness ==
    /\ \A i \in Calls :
          /\ pc[i] = "done"
          /\ outcome[i].kind = "return"
          /\ Len(outcome[i].value.sources) >= 1
    /\ outcome[1].value # outcome[2].value

----------------------------------------------------------------------------
(* Properties of the credential *)

\* C14: no upstream request leaves without a credential.  Every GET carries
\* the token the client was constructed with; a constructor given no token
\* while the environment has none raises and no call follows; the
\* application without the variable exits at startup, before any request
\* is received and without any GET; nothing happens after either failure
C14_NoRequestWithoutCredential ==
    /\ [](/\ gets >= 1 => (Truthy(params.token) /\ params.token = api_token)
          /\ (/\ call.fn = "__init__"
              /\ ~Truthy(call.api_token)
              /\ ~Truthy(environ)) =>
                 (pc = "failed" /\ outcome.kind = "raise" /\ gets = 0)
          /\ pc = "failed" => (gets = 0 /\ outcome.exc.type = "ValueError")
          /\ pc = "exited" => (gets = 0 /\ request = NoRequest)
          /\ request # NoRequest => Truthy(environ))
    /\ [][pc \notin {"failed", "exited"}]_vars

\* the constructor was given no token and the environment had none: it
\* raised
C14_Witness ==
    /\ pc = "failed"
    /\ call.fn = "__init__"
    /\ call.api_token = None
    /\ environ = None
    /\ outcome = Raise(ValueError)

----------------------------------------------------------------------------
(* Properties of /health *)

\* a /health request is being handled or has been answered
HealthRequest == request.endpoint = "/health"

\* C15: GET /health always answers 200 with status 'ok' and makes no
\* upstream call, whatever requests were answered before it, with success
\* or with failure: in every state in which a /health request waits for its
\* handler the handler can run, its step answers 200/'ok' and leaves the
\* GET count at 0, and no GET is ever counted for a /health request
C15_HealthAlwaysOk ==
    /\ [](HealthRequest =>
            /\ gets = 0
            /\ pc \in {"handler", "responded"}
            /\ pc = "handler" => ENABLED health_check
            /\ pc = "responded" =>
                  /\ http_response.status = 200
                  /\ http_response.json.status = "ok")
    /\ [][(HealthRequest /\ pc = "handler") =>
            /\ pc' = "responded"
            /\ http_response'.status = 200
            /\ http_response'.json.status = "ok"
            /\ gets' = 0]_vars

\* /health has answered 200 with status 'ok' and no GET was made
C15_Witness ==
    /\ HealthRequest
    /\ pc = "responded"
    /\ http_response.status = 200
    /\ http_response.json.status = "ok"
    /\ gets = 0

----------------------------------------------------------------------------
(* Properties of is_similar_text *)

\* is_similar_text has returned
SimReturned == pc = "done" /\ call.fn = "is_similar_text"

\* C16: is_similar_text(a, b) equals is_similar_text(b, a) for all texts
\* and every threshold
C16_SimilaritySymmetric ==
    SimReturned =>
        outcome.value =
            is_similar_text(call.text2, call.text1, call.threshold)

\* two texts with different numbers of distinct words were found similar
C16_Witness ==
    /\ SimReturned
    /\ outcome.value = TRUE
    /\ Cardinality(WordSet(call.text1)) = 1
    /\ Cardinality(WordSet(call.text2)) = 2

\* the distinct lower-cased words of a text, as strings
LowerWords(t) ==
    {LowerOf(t[k].w) : k \in {j \in 1..Len(t) : t[j].w # " "}}

\* C18: is_similar_text returns true exactly when both texts have at least
\* one word and |common lower-case words| / min(|words1|, |words2|) is
\* strictly greater than the threshold; an empty or wordless text gives
\* false, and so does a ratio exactly equal to the threshold
C18_SimilarityThreshold ==
    SimReturned =>
        LET w1 == LowerWords(call.text1)
            w2 == LowerWords(call.text2)
            n == Cardinality({w \in w1 : w \in w2})
            m == IF Cardinality(w1) <= Cardinality(w2)
                 THEN Cardinality(w1) ELSE Cardinality(w2)
            num == call.threshold.num
            den == call.threshold.den
        IN  /\ outcome.value = (w1 # {} /\ w2 # {} /\ n * den > num * m)
            /\ (w1 = {} \/ w2 = {}) => outcome.value = FALSE
            /\ n * den = num * m => outcome.value = FALSE

\* the ratio of two texts with words is exactly the threshold, 1/2, and
\* they were found not similar
C18_Witness ==
    /\ SimReturned
    /\ call.threshold = [num |-> 1, den |-> 2]
    /\ Cardinality(LowerWords(call.text1)) = 2
    /\ Cardinality(LowerWords(call.text2)) = 2
    /\ Cardinality(LowerWords(call.text1) \cap LowerWords(call.text2)) = 1
    /\ outcome.value = FALSE

----------------------------------------------------------------------------
(* Properties of the direct-URL check *)

\* the first platform, in the order x_twitter, instagram, facebook, whose
\* domain substring the URL contains
C17_FirstPlatform(url) ==
    IF Contains(url, <<"twitter.com", "/">>) \/ Contains(url, <<"x.com", "/">>)
    THEN "x_twitter"
    ELSE IF Contains(url, <<"instagram.com", "/">>) THEN "instagram"
    ELSE IF Contains(url, <<"facebook.com", "/">>) THEN "facebook"
    ELSE "none"

\* C17: the direct-URL check of one result writes at most one platform
\* slot: the slot of the first platform, in the order x_twitter, instagram,
\* facebook, whose substring the URL contains, also when the URL contains
\* the substrings of several platforms; the other slots keep their values
C17_DirectCheckWritesOneSlot ==
    [][(Scanning /\ pc = "loop" /\ pc' = "content") =>
        LET r == Current
            changed == {p \in Platforms : Links'[p] # Links[p]}
            first == IF CarriesUrl(r)
                     THEN C17_FirstPlatform(r.metadata.items.url.val)
                     ELSE "none"
        IN  /\ Cardinality(changed) <= 1
            /\ changed \subseteq {first}
            /\ first # "none" => Links'[first] = r.metadata.items.url
            /\ \A p \in Platforms \ {first} : Links'[p] = Links[p]]_vars

\* the check has just run on the URL that contains "x.com/" and
\* "instagram.com/": the X slot holds it, the Instagram slot does not
C17_Witness ==
    /\ Scanning
    /\ pc = "content"
    /\ CarriesUrl(Current)
    /\ Current.metadata.items.url = Str(U_multi)
    /\ Links["x_twitter"] = Str(U_multi)
    /\ Links["instagram"] # Str(U_multi)
    /\ Links["facebook"] # Str(U_multi)

----------------------------------------------------------------------------
(* Properties of the MCP tools *)

\* the raw_search tool was called with a scraping_tool or an output_format
\* outside the allowed values
RejectedRawSearch ==
    /\ request.endpoint = "raw_search"
    /\ \/ request.data.scraping_tool \notin {"browser-playwright", "raw-http"}
       \/ request.data.output_format \notin {"markdown", "text", "html"}

\* C19: the MCP tool raw_search validates scraping_tool and output_format
\* before it contacts the Actor: with a value outside the allowed ones it
\* returns an error string and makes no upstream call for that invocation
C19_RawSearchValidatesFirst ==
    RejectedRawSearch =>
        /\ gets = 0
        /\ call = NoCall
        /\ pc \in {"tool", "responded"}
        /\ pc = "responded" =>
              /\ IsStr(http_response.tool_result)
              /\ Head(http_response.tool_result.val) = "Error: "

\* raw_search was called with an allowed scraping_tool and the output
\* format "json": it returned the error string about output_format and no
\* GET was made
C19_Witness ==
    /\ request.endpoint = "raw_search"
    /\ request.data.scraping_tool = "raw-http"
    /\ request.data.output_format = "json"
    /\ pc = "responded"
    /\ gets = 0
    /\ http_response.tool_result.val =
          <<"Error: ", "output_format must be either 'markdown', 'text', or 'html'">>

\* a tool has returned to the MCP client
ToolReturned ==
    request.endpoint \in {"person_search", "raw_search"} /\ pc = "responded"

\* the client call of the tool ended with an exception
ClientRaised == outcome.kind = "raise"

\* C20: the MCP tools person_search and raw_search never propagate an
\* exception: a tool whose client call is over can always return, what it
\* returns is a string, and when the upstream call failed (non-200 status,
\* no connection, or an error while the results were processed) the string
\* is 'Error: ' followed by the tool's prefix and the failure message,
\* with nothing of the formatted result in it
C20_ToolsReturnErrorStrings ==
    /\ pc = "done" =>
          ENABLED (tool_person_search_return \/ tool_raw_search_return)
    /\ ToolReturned => IsStr(http_response.tool_result)
    /\ (ToolReturned /\ ClientRaised) =>
          LET text == http_response.tool_result.val
              message == SubSeq(text, 3, Len(text))
          IN  /\ text[1] = "Error: "
              /\ text[2] = (IF request.endpoint = "person_search"
                            THEN "Error searching for person: "
                            ELSE "Error performing raw search: ")
              /\ Len(message) >= 1
              /\ UpstreamFailed =>
                    message = <<"Error ", ToString(response.status_code), ": ">>
                                \o response.text.val
              /\ outcome.exc.type = "ConnectionError" =>
                    message = <<"Connection refused">>
              /\ \A k \in 1..Len(text) :
                    text[k] \notin {"# Information about ",
                                    "# Search Results for '"}

\* person_search returned the error string of an upstream 500
C20_Witness ==
    /\ ToolReturned
    /\ request.endpoint = "person_search"
    /\ response.status_code = 500
    /\ http_response.tool_result.val =
          <<"Error: ", "Error searching for person: ", "Error ", "500", ": ">>
            \o ErrorText.val

----------------------------------------------------------------------------
(* Properties of the queries of find_info_by_username *)

PotentialNames == IF "potential_names" \in DOMAIN found_info
                  THEN found_info.potential_names ELSE <<>>

RelatedLinks == IF "related_links" \in DOMAIN found_info
                THEN found_info.related_links ELSE <<>>

NoDuplicates(s) == \A i, j \in 1..Len(s) : i # j => s[i] # s[j]

\* the items of s without those that occurred earlier in s
FirstSeen(s) ==
    LET keep == Ascending({k \in 1..Len(s) :
                              \A j \in 1..(k - 1) : s[j] # s[k]})
    IN  [i \in 1..Len(keep) |-> s[keep[i]]]

\* the non-empty urls of the results, in the order of the results
RECURSIVE UrlsIn(_)
UrlsIn(results) ==
    IF results = <<>> THEN <<>>
    ELSE LET r == Head(results)
             has == /\ "metadata" \in DOMAIN r
                    /\ "url" \in DOMAIN r.metadata
                    /\ r.metadata.url # ""
         IN  (IF has THEN <<r.metadata.url>> ELSE <<>>) \o UrlsIn(Tail(results))

\* the names the patterns capture in the results, in the order the loops
\* over results, patterns and matches meet them
RECURSIVE NamesIn(_)
NamesIn(results) ==
    IF results = <<>> THEN <<>>
    ELSE LET r == Head(results)
         IN  (IF "markdown" \in DOMAIN r THEN AllMatches(r.markdown, 1)
              ELSE <<>>) \o NamesIn(Tail(results))

\* what the claim says of every state
C21_State ==
    /\ Len(posted) <= Len(IdentityTemplates) + 1
    /\ \A k \in 1..Len(posted) :
          IF k <= Len(IdentityTemplates)
          THEN posted[k] = IdentityPost(found_info.username, k)
          ELSE /\ PotentialNames # <<>>
               /\ posted[k] = PersonPost(found_info.username,
                                         PotentialNames[1])
    /\ (pc = "queries" /\ Len(posted) < Len(IdentityTemplates)) =>
          ENABLED PostIdentityQuery
    /\ (pc = "queries" /\ Len(posted) = Len(IdentityTemplates)) =>
          /\ (ENABLED PostPersonSearch) <=> (PotentialNames # <<>>)
          /\ (ENABLED SkipPersonSearch) <=> (PotentialNames = <<>>)
    /\ pc = "finished" =>
          /\ Len(posted) >= Len(IdentityTemplates)
          /\ (Len(posted) = Len(IdentityTemplates) + 1) <=>
                (PotentialNames # <<>>)
    /\ NoDuplicates(RelatedLinks)
    /\ NoDuplicates(PotentialNames)

\* what the claim says of every step
C21_Step ==
    /\ (pc = "raw_wait" /\ pc' # "raised") =>
          /\ posted' = posted
          /\ found_info' = found_info
          /\ pc' = IF last_status' = 200 THEN "results" ELSE "queries"
    /\ IsPrefix(RelatedLinks, RelatedLinks')
    /\ IsPrefix(PotentialNames, PotentialNames')
    /\ pc = "results" =>
          /\ RelatedLinks' = FirstSeen(RelatedLinks \o UrlsIn(response.json))
          /\ PotentialNames' =
                FirstSeen(PotentialNames \o NamesIn(response.json))
    /\ IsPrefix(posted, posted')

----------------------------------------------------------------------------
(* Properties of the source labels of person_search *)

\* person_search returned the formatted profile
ProfileReturned ==
    /\ request.endpoint = "person_search"
    /\ pc = "responded"
    /\ outcome.kind = "return"

\* the upstream results that gave a source entry, in their order
SourceOrigins ==
    Ascending({k \in 1..Len(search_results) :
                  LET r == search_results[k]
                  IN  /\ "metadata" \in DOMAIN r
                      /\ ~IsNone(r.metadata)
                      /\ "url" \in DOMAIN r.metadata.items})

\* the upstream results that gave a content item, in their order
ContentOrigins ==
    Ascending({k \in 1..Len(search_results) :
                  "markdown" \in DOMAIN search_results[k]})

\* the output holds the heading '### Content i (Source: i)'
Labelled(i) ==
    LET text == http_response.tool_result.val
        heading == <<"### Content ", ToString(i),
                     " (Source: ", ToString(i), ")">>
    IN  \E k \in 1..Len(text) :
            /\ k + Len(heading) - 1 <= Len(text)
            /\ SubSeq(text, k, k + Len(heading) - 1) = heading

\* C22: in the output of the MCP tool person_search, whenever content
\* block i is labelled '(Source: i)', the i-th content item and the i-th
\* source entry come from the same upstream result
C22_LabelSameResult ==
    ProfileReturned =>
        \A i \in 1..Len(outcome.value.content) :
            Labelled(i) =>
                /\ i <= Len(SourceOrigins)
                /\ i <= Len(ContentOrigins)
                /\ SourceOrigins[i] = ContentOrigins[i]

====
